---- MODULE Spec2Model ----
(***************************************************************************)
(* GEEST2 workflow engine.                                                 *)
(*                                                                         *)
(* Spec      : WorkflowBase.execute() for one tree node (feature-driven,   *)
(*             raster-driven or aggregate-driven), with the aggregation    *)
(*             input lookup of AggregationWorkflowBase and the derived     *)
(*             node status of JsonTreeItem.                                *)
(***************************************************************************)
EXTENDS Integers, Sequences, FiniteSets, TLC

\* ------------------------------------------------------------------ bounds
MaxTiles == 2
MaxRuns == 2
MaxPasses == 2
MaxWidth == 3
MaxCoord == 4
MaxCell == 3
MaxParts == 2
MaxCalls == 3
MaxAreas == 3
MaxIdLen == 2

\* ------------------------------------------------------- python values
\* Python's None and False as they end up stored in an attribute.
PyNone == "None"
PyFalse == "False"
\* Python truthiness of an attribute value ("", None and False are falsy).
Truthy(v) == v \notin {"", PyNone, PyFalse}

\* Texts are sequences of words; `sub in text` is contiguous containment.
Contains(text, sub) ==
    \E i \in 1..(Len(text) - Len(sub) + 1) : SubSeq(text, i, i + Len(sub) - 1) = sub

\* A key that is missing from an attribute dictionary.
Absent == <<"<absent>">>
\* dict.get(key, default)
AttrGet(v, default) == IF v = Absent THEN default ELSE v
\* the same for the attributes that hold a path
AbsentPath == "<absent>"
PathGet(v, default) == IF v = AbsentPath THEN default ELSE v

\* ---------------------------------------------------------------- texts
workflow_name == "wf"
NoText == <<>>
NotRunText == <<"Not", "Run">>
CompletedText == <<workflow_name, "Workflow", "Completed">>
ErrorText == <<workflow_name, "Workflow", "Error">>
FailedText == <<"mode", "Aggregation", "Workflow", "Failed">>

\* analysis modes: the spelling tested by get_raster_dict, the spelling
\* tested by getStatus (with U+2019, written here as Don't), a configured mode.
DoNotUse == <<"Do", "Not", "Use">>
DontUse == <<"Don't", "Use">>
UseDefaultIndexScore == <<"Use", "Default", "Index", "Score">>
Modes == {Absent, DoNotUse, DontUse, UseDefaultIndexScore}

\* getStatus returning the tooltip texts instead of the glyphs.
getStatusAsTooltip(data) ==
    IF Contains(AttrGet(data.result, NoText), <<"Error">>) THEN "Workflow failed"
    ELSE IF Contains(AttrGet(data.result, NoText), <<"Failed">>) THEN "Workflow failed"
    ELSE IF Contains(AttrGet(data.analysis_mode, NoText), DontUse) /\ data.indicator_required
        THEN "Required and not configured"
    ELSE IF Contains(AttrGet(data.analysis_mode, NoText), DontUse) /\ ~data.indicator_required
        THEN "Not configured (optional)"
    ELSE IF ~Contains(AttrGet(data.result, NoText), <<"Workflow", "Completed">>)
        THEN "Workflow failed"
    ELSE "Completed successfully"

\* ------------------------------------------------- JsonTreeItem.getStatus
\* The glyph U+2714 is written "tick".
getStatus(data) ==
    IF Contains(AttrGet(data.result, NoText), <<"Error">>) THEN "x"
    ELSE IF Contains(AttrGet(data.result, NoText), <<"Failed">>) THEN "x"
    ELSE IF Contains(AttrGet(data.analysis_mode, NoText), DontUse) /\ data.indicator_required
        THEN "-"
    ELSE IF Contains(AttrGet(data.analysis_mode, NoText), DontUse) /\ ~data.indicator_required
        THEN "!"
    ELSE IF ~Contains(AttrGet(data.result, NoText), <<"Workflow", "Completed">>) THEN "x"
    ELSE "tick"

\* ------------------------------------------------------------ variables
VARIABLES
    kind,            \* production mode fixed at construction
    nTiles,          \* number of tiles the AreaIterator yields
    children,        \* guid -> attributes of the child items (aggregation)
    attrs,           \* self.attributes, a reference into the tree item
    pc,              \* position inside execute()
    index,           \* loop index of the tile loop
    canceled,        \* self.feedback.isCanceled()
    raster_output,   \* result of the production step of the current tile
    output_rasters,  \* masked rasters collected so far
    vrt_inputs,      \* rasters the VRT was built from
    ret,             \* value returned by execute()
    runs,            \* number of execute() calls made on this node
    steps,           \* steps started in the current execute(), in order
    polled_canceled, \* tile index at which the poll saw the cancellation
    raised,          \* step in which an exception was raised inside execute()
    last_dict        \* what get_raster_dict did in the last aggregate step

execVars == <<kind, nTiles, children, attrs, pc, index, canceled, raster_output,
              output_rasters, vrt_inputs, ret, runs, steps, polled_canceled, raised,
              last_dict>>

\* state of TreePanel and of the queue manager it drives
VARIABLES
    present,             \* the nodes of the tree
    items,               \* node -> attributes of the tree item
    run_only_incomplete, \* TreePanel.run_only_incomplete
    workflow_queue,      \* TreePanel.workflow_queue, the phases still to start
    ui_busy,             \* progress bars shown (a pass is being reported)
    job_queue,           \* queue manager: tasks waiting, FIFO
    active,              \* queue manager: tasks running
    completed_signal,    \* processing_completed emitted, slot not yet run
    pass_kind,           \* "none", "all" (run_all) or "incomplete"
    passes,              \* passes started so far
    phases_started,      \* phases started in the current pass, in order
    queued_in_pass,      \* nodes queued in the current pass
    finished_in_pass     \* nodes whose task finished in the current pass

schedVars == <<present, items, run_only_incomplete, workflow_queue, ui_busy,
               job_queue, active, completed_signal, pass_kind, passes,
               phases_started, queued_in_pass, finished_in_pass>>

VARIABLES
    child_cancel         \* guid -> how the child's own workflow met a cancellation

linkVars == <<child_cancel>>

VARIABLES
    pass_log             \* history of the current pass: the nodes that had a
                         \* result file when its first phase was queued, and
                         \* each queued task

VARIABLES
    written,             \* the files written so far, each with the writing node
    file_pc              \* node -> position of its workflow among its writes

fileVars == <<written, file_pc>>

VARIABLES
    ras                  \* the rasters of one aggregate() call on one tile

VARIABLES
    grid                 \* one grid_aligned_bbox call: its inputs and result

VARIABLES
    study    \* one StudyAreaProcessingTask: its layer_bbox and the boxes it aligned

VARIABLES
    doc    \* one configuration document: loaded into the tree model, serialized back

VARIABLES
    factory    \* one WorkflowFactory: its counter and the create_workflow calls made on it

VARIABLES
    job    \* the WorkflowJob tasks: status, signals emitted, signals delivered to TreePanel

VARIABLES
    invoked    \* the production steps invoked in the current execute(), in order

VARIABLES
    mosaic    \* the rasters of one node: produced and masked tile by tile, then mosaicked

VARIABLES
    item_status    \* one JsonTreeItem: its attributes and the status updateStatus computed

VARIABLES
    processor    \* one FeaturesPerCellProcessor.process_areas call over a study-area store

VARIABLES
    progress    \* TreePanel.items_to_run and the overall progress bar

VARIABLES
    lookup    \* one child item: the masked raster its workflow writes, the path its parent looks up

vars == <<execVars, schedVars, linkVars, pass_log, fileVars, ras, grid, study, doc, factory, job, invoked, mosaic, item_status, processor, progress, lookup>>
notLookup == <<execVars, schedVars, linkVars, pass_log, fileVars, ras, grid, study, doc, factory, job, invoked, mosaic, item_status, processor, progress>>
notProcessor == <<execVars, schedVars, linkVars, pass_log, fileVars, ras, grid, study, doc, factory, job, invoked, mosaic, item_status, progress, lookup>>
notStatus == <<execVars, schedVars, linkVars, pass_log, fileVars, ras, grid, study, doc, factory, job, invoked, mosaic, processor, progress, lookup>>
notMosaic == <<execVars, schedVars, linkVars, pass_log, fileVars, ras, grid, study, doc, factory, job, invoked, item_status, processor, progress, lookup>>
notInvoked == <<execVars, schedVars, linkVars, pass_log, fileVars, ras, grid, study, doc, factory, job, mosaic, item_status, processor, progress, lookup>>
notExecInvoked == <<schedVars, linkVars, pass_log, fileVars, ras, grid, study, doc, factory, job, mosaic, item_status, processor, progress, lookup>>
notJob == <<execVars, schedVars, linkVars, pass_log, fileVars, ras, grid, study, doc, factory, invoked, mosaic, item_status, processor, progress, lookup>>
notFactory == <<execVars, schedVars, linkVars, pass_log, fileVars, ras, grid, study, doc, job, invoked, mosaic, item_status, processor, progress, lookup>>
notDoc == <<execVars, schedVars, linkVars, pass_log, fileVars, ras, grid, study, factory, job, invoked, mosaic, item_status, processor, progress, lookup>>
notArea == <<execVars, schedVars, linkVars, pass_log, fileVars, ras, grid, doc, factory, job, invoked, mosaic, item_status, processor, progress, lookup>>
notExec == <<schedVars, linkVars, pass_log, fileVars, ras, grid, study, doc, factory, job, invoked, mosaic, item_status, processor, progress, lookup>>
notFiles == <<execVars, schedVars, linkVars, pass_log, ras, grid, study, doc, factory, job, invoked, mosaic, item_status, processor, progress, lookup>>
notRas == <<execVars, schedVars, linkVars, pass_log, fileVars, grid, study, doc, factory, job, invoked, mosaic, item_status, processor, progress, lookup>>
notGrid == <<execVars, schedVars, linkVars, pass_log, fileVars, ras, study, doc, factory, job, invoked, mosaic, item_status, processor, progress, lookup>>
notSched == <<execVars, linkVars, fileVars, ras, grid, study, doc, factory, job, invoked, mosaic, item_status, processor, lookup>>

Kinds == {"features", "raster", "aggregate"}
guids == <<"c1", "c2">>
Guids == {guids[k] : k \in 1..Len(guids)}
weight_of == [g \in Guids |-> IF g = "c1" THEN 40 ELSE 60]

ChildResults == {NotRunText, CompletedText, ErrorText}
ChildData == [analysis_mode : Modes, indicator_required : {FALSE},
              result : ChildResults, result_file : {"", "child_combined.vrt"}]

\* item.getItemByGuid(guid)
getItemByGuid(guid) == children[guid]

\* ------------------------------- AggregationWorkflowBase.get_raster_dict
\* exists[g]: os.path.exists of child g's masked raster for this tile.
RECURSIVE raster_dict_from(_, _, _, _)
raster_dict_from(k, idx, exists, raster_files) ==
    IF k > Len(guids) THEN [raised |-> FALSE, at |-> 0, files |-> raster_files]
    ELSE
        LET item == getItemByGuid(guids[k])
            status == getStatus(item) = "Completed successfully"
            mode == AttrGet(item.analysis_mode, DoNotUse) = DoNotUse
            excluded == getStatus(item) = "Excluded from analysis"
        IN  IF ~status /\ ~mode /\ ~excluded
                THEN [raised |-> TRUE, at |-> k, files |-> raster_files]
            ELSE IF mode THEN raster_dict_from(k + 1, idx, exists, raster_files)
            ELSE IF excluded THEN raster_dict_from(k + 1, idx, exists, raster_files)
            ELSE IF ~Truthy(PathGet(item.result_file, ""))
                THEN [raised |-> TRUE, at |-> k, files |-> raster_files]
            ELSE IF exists[guids[k]]
                THEN raster_dict_from(k + 1, idx, exists,
                        raster_files \cup {[child |-> guids[k], tile |-> idx,
                                            weight |-> weight_of[guids[k]]]})
            ELSE raster_dict_from(k + 1, idx, exists, raster_files)

\* get_raster_dict without the check that a child is completed, do-not-use
\* or excluded.
RECURSIVE raster_dict_unchecked_from(_, _, _, _)
raster_dict_unchecked_from(k, idx, exists, raster_files) ==
    IF k > Len(guids) THEN [raised |-> FALSE, at |-> 0, files |-> raster_files]
    ELSE
        LET item == getItemByGuid(guids[k])
            mode == AttrGet(item.analysis_mode, DoNotUse) = DoNotUse
        IN  IF mode THEN raster_dict_unchecked_from(k + 1, idx, exists, raster_files)
            ELSE IF ~Truthy(PathGet(item.result_file, ""))
                THEN [raised |-> TRUE, at |-> k, files |-> raster_files]
            ELSE IF exists[guids[k]]
                THEN raster_dict_unchecked_from(k + 1, idx, exists,
                        raster_files \cup {[child |-> guids[k], tile |-> idx,
                                            weight |-> weight_of[guids[k]]]})
            ELSE raster_dict_unchecked_from(k + 1, idx, exists, raster_files)

get_raster_dict_unchecked(idx, exists) == raster_dict_unchecked_from(1, idx, exists, {})

get_raster_dict(idx, exists) == raster_dict_from(1, idx, exists, {})

\* --------------------------------------- AggregationWorkflowBase.aggregate
\* an aggregate that goes on to the merge with no input file
aggregate_without_input_check(input_files, outcome, a) ==
    IF outcome = "none"
        THEN [value |-> PyNone, raised |-> FALSE, attrs |-> a, did |-> <<"merge">>]
    ELSE IF outcome = "raise"
        THEN [value |-> PyNone, raised |-> TRUE, attrs |-> a, did |-> <<"merge">>]
    ELSE [value |-> "aggregated.tif", raised |-> FALSE,
          attrs |-> [a EXCEPT !.result_file = "aggregated.tif"],
          did |-> <<"merge", "weighted_sum">>]

\* outcome: what the geoprocessing calls do ("ok", "none": a caught failure,
\* "raise": the re-raised gdal.Translate failure).
aggregate(input_files, outcome, a) ==
    IF input_files = {} THEN [value |-> PyNone, raised |-> FALSE, attrs |-> a, did |-> <<>>]
    ELSE IF outcome = "none"
        THEN [value |-> PyNone, raised |-> FALSE, attrs |-> a, did |-> <<"merge">>]
    ELSE IF outcome = "raise"
        THEN [value |-> PyNone, raised |-> TRUE, attrs |-> a, did |-> <<"merge">>]
    ELSE [value |-> "aggregated.tif", raised |-> FALSE,
          attrs |-> [a EXCEPT !.result_file = "aggregated.tif"],
          did |-> <<"merge", "weighted_sum">>]

\* --------------------- AggregationWorkflowBase._process_aggregate_for_area
process_aggregate_for_area(idx, exists, outcome, a) ==
    LET rd == get_raster_dict(idx, exists)
        a1 == IF rd.files = {}
                THEN [a EXCEPT !.result = FailedText, !.error = "No valid raster files"]
                ELSE a
    IN  IF rd.raised
            THEN [value |-> PyNone, raised |-> TRUE, attrs |-> a, did |-> <<>>]
        ELSE aggregate(rd.files, outcome, a1)

\* ------------------------------------------------ combine_rasters_to_vrt
\* a mosaic that lists the rasters last tile first
combine_rasters_to_vrt_reversed(rasters, outcome) ==
    LET checked_rasters == SelectSeq(rasters, LAMBDA r : r.valid)
    IN  [value |-> "wf_combined.vrt", raised |-> FALSE,
         inputs |-> [k \in 1..Len(checked_rasters) |->
                        checked_rasters[Len(checked_rasters) + 1 - k]]]

combine_rasters_to_vrt(rasters, outcome) ==
    LET checked_rasters == SelectSeq(rasters, LAMBDA r : r.valid)
    IN  IF rasters = <<>> THEN [value |-> PyNone, raised |-> FALSE, inputs |-> <<>>]
        ELSE IF checked_rasters = <<>> THEN [value |-> PyNone, raised |-> FALSE, inputs |-> <<>>]
        ELSE IF outcome = "raise" THEN [value |-> PyNone, raised |-> TRUE, inputs |-> <<>>]
        ELSE IF outcome = "invalid"
            THEN [value |-> PyFalse, raised |-> FALSE, inputs |-> checked_rasters]
        ELSE [value |-> "wf_combined.vrt", raised |-> FALSE, inputs |-> checked_rasters]

\* ------------------------------------------------- WorkflowBase.execute
\* An except clause that leaves the result file of an earlier run in place.
ExceptHandlerKeepsResultFile(a) ==
    [a EXCEPT !.result = ErrorText,
              !.error_file = "error.txt", !.error = "Failed to process"]

\* lines 336-363: the except clause of the tile loop.
ExceptHandler(a) ==
    [a EXCEPT !.result = ErrorText, !.result_file = "",
              !.error_file = "error.txt", !.error = "Failed to process"]

Fail(a, where) ==
    /\ attrs' = ExceptHandler(a)
    /\ raised' = where
    /\ ret' = "False"
    /\ pc' = "done"

\* no child of the node has been run by this model
NoCancel == [g \in Guids |-> "no"]
\* no grid_aligned_bbox call is under way
NoGrid == [stage |-> "none"]
\* the idle value of lookup
NoLookup == [stage |-> "none"]
\* tree_panel.py lines 69 and 168-170: nothing counted, the bar at 0 of 100
NoProgress == [items_to_run |-> 0, value |-> 0, maximum |-> 100]
\* the idle value of processor
NoProcessor == [stage |-> "none"]
\* the idle value of item_status
NoStatus == [stage |-> "none"]
\* the idle value of mosaic
NoMosaic == [stage |-> "none"]
\* the idle value of invoked
NoneInvoked == <<>>
\* the idle value of job
NoJobs == [j \in {"j1", "j2"} |-> [status |-> "none", canceled |-> FALSE, returned |-> "none", emitted |-> <<>>, delivered |-> <<>>, feedback_canceled |-> FALSE, polls |-> <<>>]]
\* the idle value of factory
NoFactory == [workflow_completed |-> 0, calls |-> <<>>]
\* the idle value of doc
NoDoc == [stage |-> "none"]
\* the idle value of study
NoStudy == [stage |-> "none"]
\* no aggregate() call is under way
NoRasters == [stage |-> "none"]
\* no workflow has written a file
FilesIdle ==
    /\ written = {}
    /\ file_pc = [n \in {"I1", "I2", "F1"} |-> [index |-> 0, step |-> "subset"]]
\* no pass has begun
NoLog == [populated |-> {}, queued |-> <<>>]
FreshAttrs == [result |-> Absent, result_file |-> "", error |-> "", error_file |-> ""]
NoDict == [raised |-> FALSE, at |-> 0, files |-> {}]

\* ---------------------------------------------------------------- tree
\* One analysis, two dimensions, one factor, two indicators at most.
Nodes == {"A", "D1", "D2", "F1", "I1", "I2"}
role == [n \in Nodes |->
            IF n = "A" THEN "analysis"
            ELSE IF n \in {"D1", "D2"} THEN "dimension"
            ELSE IF n = "F1" THEN "factor" ELSE "indicator"]
parentItem == [n \in Nodes |->
            IF n = "A" THEN "root"
            ELSE IF n \in {"D1", "D2"} THEN "A"
            ELSE IF n = "F1" THEN "D1" ELSE "F1"]

SchedFresh ==
    /\ items = [n \in Nodes |-> [result |-> NotRunText, result_file |-> "",
                                 analysis_mode |-> UseDefaultIndexScore,
                                 indicator_required |-> FALSE,
                                 disabled |-> FALSE]]
    /\ run_only_incomplete = FALSE
    /\ workflow_queue = <<>>
    /\ ui_busy = FALSE
    /\ job_queue = <<>>
    /\ active = {}
    /\ completed_signal = FALSE
    /\ pass_kind = "none"
    /\ passes = 0
    /\ phases_started = <<>>
    /\ queued_in_pass = {}
    /\ finished_in_pass = {}

ExecIdle ==
    /\ kind = "features"
    /\ nTiles = 0
    /\ children = [g \in Guids |-> [analysis_mode |-> Absent,
                                    indicator_required |-> FALSE,
                                    result |-> NotRunText, result_file |-> ""]]
    /\ attrs = FreshAttrs
    /\ pc = "idle"
    /\ index = 0
    /\ canceled = FALSE
    /\ raster_output = PyNone
    /\ output_rasters = <<>>
    /\ vrt_inputs = <<>>
    /\ ret = "none"
    /\ runs = 1
    /\ steps = <<>>
    /\ polled_canceled = -1
    /\ raised = ""
    /\ last_dict = NoDict

Init ==
    /\ kind \in Kinds
    /\ nTiles \in 0..MaxTiles
    /\ children \in IF kind = "aggregate" THEN [Guids -> ChildData]
                    ELSE {[g \in Guids |-> [analysis_mode |-> Absent,
                                            indicator_required |-> FALSE,
                                            result |-> NotRunText,
                                            result_file |-> ""]]}
    /\ attrs = FreshAttrs
    /\ pc = "idle"
    /\ index = 0
    /\ canceled = FALSE
    /\ raster_output = PyNone
    /\ output_rasters = <<>>
    /\ vrt_inputs = <<>>
    /\ ret = "none"
    /\ runs = 1
    /\ steps = <<>>
    /\ polled_canceled = -1
    /\ raised = ""
    /\ last_dict = NoDict
    /\ child_cancel = NoCancel
    /\ pass_log = NoLog
    /\ FilesIdle
    /\ ras = NoRasters
    /\ grid = NoGrid
    /\ study = NoStudy
    /\ doc = NoDoc
    /\ factory = NoFactory
    /\ job = NoJobs
    /\ invoked = NoneInvoked
    /\ mosaic = NoMosaic
    /\ item_status = NoStatus
    /\ processor = NoProcessor
    /\ progress = NoProgress
    /\ lookup = NoLookup
    /\ present = {"A"}
    /\ SchedFresh

\* workflow_base.py line 103 and the concrete classes: self.features_layer
\* is a layer (truthy) in a feature-driven workflow and None otherwise
features_layer(k) == k = "features"

\* workflow_base.py line 113, aggregation_workflow_base.py line 45
aggregation(k) == k = "aggregate"

\* a choice of the production step that looks at the tile index
production_step_by_tile(has_features, is_aggregation, idx) ==
    IF idx = 0 THEN "_process_features_for_area" ELSE "_process_raster_for_area"

\* lines 274-309: the branch of the tile loop that is taken
production_step(has_features, is_aggregation, idx) ==
    IF has_features THEN "_process_features_for_area"
    ELSE IF is_aggregation = FALSE THEN "_process_raster_for_area"
    ELSE IF is_aggregation = TRUE THEN "_process_aggregate_for_area"
    ELSE "none"

\* lines 203-257: reset the result text, reproject the features layer.
ExecuteStart(outcome) ==
    /\ pc = "idle"
    /\ index' = 0
    /\ output_rasters' = <<>>
    /\ raster_output' = PyNone
    /\ IF kind = "features" /\ outcome = "raise"
        THEN /\ Fail([attrs EXCEPT !.result = NotRunText], "reproject")
        ELSE /\ attrs' = [attrs EXCEPT !.result = NotRunText]
             /\ pc' = "poll"
             /\ UNCHANGED <<raised, ret>>
    /\ UNCHANGED <<kind, nTiles, children, canceled, vrt_inputs, runs, steps,
                   polled_canceled, last_dict>>
    /\ UNCHANGED notExec

\* A poll that only logs the cancellation and goes on with the tile.
PollCanceledLogsOnly(a) ==
    /\ pc' = IF kind = "aggregate" THEN "produce" ELSE "subset"
    /\ attrs' = a
    /\ UNCHANGED <<raised, ret>>

\* lines 266-271: the branch taken when the poll sees the cancellation. The
\* message it logs reads self.class_name, an attribute no class of the
\* repository assigns: the read raises AttributeError inside the try block.
PollCanceled(a) == Fail(a, "cancel_log")

\* lines 260-272: next tile of the iterator and the cancellation poll.
Poll ==
    /\ pc = "poll"
    /\ index < nTiles
    /\ IF canceled
        THEN /\ polled_canceled' = index
             /\ PollCanceled(attrs)
        ELSE /\ pc' = IF production_step(features_layer(kind), aggregation(kind), index)
                            = "_process_aggregate_for_area"
                       THEN "produce" ELSE "subset"
             /\ UNCHANGED <<attrs, raised, ret, polled_canceled>>
    /\ UNCHANGED <<kind, nTiles, children, index, canceled, raster_output,
                   output_rasters, vrt_inputs, runs, steps, last_dict>>
    /\ UNCHANGED notExec

\* lines 274-278, 293-295: _subset_vector_layer / _subset_raster_layer
Subset(outcome) ==
    /\ pc = "subset"
    /\ steps' = Append(steps, <<"subset", index>>)
    /\ IF outcome = "raise"
        THEN Fail(attrs, "subset")
        ELSE /\ pc' = "produce"
             /\ UNCHANGED <<attrs, raised, ret>>
    /\ UNCHANGED <<kind, nTiles, children, index, canceled, raster_output,
                   output_rasters, vrt_inputs, runs, polled_canceled, last_dict>>
    /\ UNCHANGED notExec

\* lines 283-309: the production step of the node's mode
Produce(outcome, exists) ==
    /\ pc = "produce"
    /\ invoked' = Append(invoked, <<production_step(features_layer(kind), aggregation(kind), index),
                                    index>>)
    /\ IF production_step(features_layer(kind), aggregation(kind), index)
            = "_process_aggregate_for_area"
        THEN LET r == process_aggregate_for_area(index, exists, outcome, attrs)
             IN  /\ steps' = steps \o <<<<"produce", index>>>>
                                    \o [k \in 1..Len(r.did) |-> <<r.did[k], index>>]
                 /\ last_dict' = get_raster_dict(index, exists)
                 /\ IF r.raised
                        THEN /\ Fail(r.attrs, "produce")
                             /\ UNCHANGED raster_output
                        ELSE /\ attrs' = r.attrs
                             /\ raster_output' = r.value
                             /\ pc' = "mask"
                             /\ UNCHANGED <<raised, ret>>
        ELSE /\ steps' = Append(steps, <<"produce", index>>)
             /\ UNCHANGED last_dict
             /\ IF outcome = "raise"
                    THEN /\ Fail(attrs, "produce")
                         /\ UNCHANGED raster_output
                    ELSE /\ raster_output' = IF outcome = "ok" THEN "tile.tif" ELSE PyNone
                         /\ pc' = "mask"
                         /\ UNCHANGED <<attrs, raised, ret>>
    /\ UNCHANGED <<kind, nTiles, children, index, canceled, output_rasters,
                   vrt_inputs, runs, polled_canceled>>
    /\ UNCHANGED notExecInvoked

\* lines 311-318 and _mask_raster: outcome "bad" is a warp that writes no
\* usable file and still returns the output path.
Mask(outcome) ==
    /\ pc = "mask"
    /\ IF ~Truthy(raster_output)
        THEN /\ Fail(attrs, "mask")
             /\ UNCHANGED <<steps, output_rasters, index>>
        ELSE /\ steps' = Append(steps, <<"mask", index>>)
             /\ IF outcome = "raise"
                    THEN /\ Fail(attrs, "mask")
                         /\ UNCHANGED <<output_rasters, index>>
                    ELSE /\ output_rasters' = Append(output_rasters,
                                [tile |-> index, valid |-> (outcome = "ok")])
                         /\ index' = index + 1
                         /\ pc' = "poll"
                         /\ UNCHANGED <<attrs, raised, ret>>
    /\ UNCHANGED <<kind, nTiles, children, canceled, raster_output, vrt_inputs,
                   runs, polled_canceled, last_dict>>
    /\ UNCHANGED notExec

\* lines 319-334: the mosaic and the success bookkeeping
Mosaic(outcome) ==
    /\ pc = "poll"
    /\ index = nTiles
    /\ steps' = Append(steps, <<"mosaic", index>>)
    /\ LET v == combine_rasters_to_vrt(output_rasters, outcome)
       IN  IF v.raised
            THEN /\ Fail(attrs, "mosaic")
                 /\ UNCHANGED vrt_inputs
            ELSE /\ attrs' = [attrs EXCEPT !.result_file = v.value,
                                           !.result = CompletedText,
                                           !.error_file = PyNone]
                 /\ vrt_inputs' = v.inputs
                 /\ ret' = "True"
                 /\ pc' = "done"
                 /\ UNCHANGED raised
    /\ UNCHANGED <<kind, nTiles, children, index, canceled, raster_output,
                   output_rasters, runs, polled_canceled, last_dict>>
    /\ UNCHANGED notExec

\* QgsFeedback.cancel() on the feedback object the job created for the
\* workflow (workflow_job.py line 42, handed out by feedback(), lines 117-122)
Cancel ==
    /\ pc # "done"
    /\ ~canceled
    /\ canceled' = TRUE
    /\ UNCHANGED <<kind, nTiles, children, attrs, pc, index, raster_output,
                   output_rasters, vrt_inputs, ret, runs, steps, polled_canceled,
                   raised, last_dict>>
    /\ UNCHANGED notExec

\* The node is queued again: a new job, a new feedback object, a new workflow.
Rerun ==
    /\ pc = "done"
    /\ runs < MaxRuns
    /\ runs' = runs + 1
    /\ pc' = "idle"
    /\ canceled' = FALSE
    /\ ret' = "none"
    /\ steps' = <<>>
    /\ polled_canceled' = -1
    /\ raised' = ""
    /\ vrt_inputs' = <<>>
    /\ last_dict' = NoDict
    /\ invoked' = <<>>
    /\ UNCHANGED <<kind, nTiles, children, attrs, index, raster_output, output_rasters>>
    /\ UNCHANGED notExecInvoked

\* The node that has just been executed is child g of an aggregation node,
\* which is executed next: the parent reads the same item the child's
\* workflow wrote (self.attributes = self.item.attributes(), line 111).
RunParentOf(g, m) ==
    /\ pc = "done"
    /\ kind # "aggregate"
    /\ kind' = "aggregate"
    /\ children' = [children EXCEPT ![g] =
                        [analysis_mode |-> m, indicator_required |-> FALSE,
                         result |-> attrs.result, result_file |-> attrs.result_file]]
    /\ child_cancel' = [child_cancel EXCEPT ![g] =
                        IF polled_canceled # -1 THEN "polled"
                        ELSE IF canceled THEN "late" ELSE "no"]
    /\ attrs' = FreshAttrs
    /\ pc' = "idle"
    /\ index' = 0
    /\ canceled' = FALSE
    /\ raster_output' = PyNone
    /\ output_rasters' = <<>>
    /\ vrt_inputs' = <<>>
    /\ ret' = "none"
    /\ runs' = 1
    /\ steps' = <<>>
    /\ polled_canceled' = -1
    /\ raised' = ""
    /\ last_dict' = NoDict
    /\ invoked' = <<>>
    /\ UNCHANGED nTiles
    /\ UNCHANGED <<schedVars, pass_log, fileVars, ras, grid, study, doc, factory, job, mosaic, item_status, processor, progress, lookup>>

Next ==
    \/ \E o \in {"ok", "raise"} : ExecuteStart(o)
    \/ Poll
    \/ \E o \in {"ok", "raise"} : Subset(o)
    \/ \E o \in {"ok", "none", "raise"}, e \in [Guids -> BOOLEAN] : Produce(o, e)
    \/ \E o \in {"ok", "bad", "raise"} : Mask(o)
    \/ \E o \in {"ok", "invalid", "raise"} : Mosaic(o)
    \/ Cancel
    \/ Rerun
    \/ \E g \in Guids, m \in Modes : RunParentOf(g, m)

Spec == Init /\ [][Next]_vars

\* =========================================================== scheduler
\* SpecSched : TreePanel's phase-batched passes (run_all, run_incomplete)
\*             over the tree, driving the queue manager.

\* the trees: the analysis item and any set of nodes closed under parent
TreeShapes == {S \in SUBSET Nodes :
                  "A" \in S /\ \A n \in S \ {"A"} : parentItem[n] \in S}

\* the order in which a walk from the root visits the nodes
NodeOrder == <<"A", "D1", "F1", "I1", "I2", "D2">>
childItems(p) == SelectSeq(NodeOrder, LAMBDA n : n \in present /\ parentItem[n] = p)

\* _queue_workflows, line 1202, listing the factors before the indicators
PhaseOrderFactorsFirst == <<"factors", "indicators", "dimensions", "analysis">>

\* _queue_workflows, line 1202
PhaseOrder == <<"indicators", "factors", "dimensions", "analysis">>

\* start_workflows, lines 918-925
role_of_type(type) ==
    CASE type = "indicators" -> "indicator"
      [] type = "factors" -> "factor"
      [] type = "dimensions" -> "dimension"
      [] type = "analysis" -> "analysis"

\* queue_workflow_task without the test of the result file
queue_workflow_task_always(item, r, its, roi) ==
    IF r = role[item] THEN <<item>> ELSE <<>>

\* queue_workflow_task, lines 976-991: the tasks it adds for one item
queue_workflow_task(item, r, its, roi) ==
    IF Truthy(PathGet(its[item].result_file, PyNone)) /\ roi THEN <<>>
    ELSE IF r = role[item] THEN <<item>>
    ELSE <<>>

\* _start_workflows, lines 927-940: the tasks queued below parent_item
RECURSIVE start_workflows_below(_, _, _, _)
RECURSIVE start_workflows_each(_, _, _, _)
start_workflows_each(kids, r, its, roi) ==
    IF kids = <<>> THEN <<>>
    ELSE LET child_item == Head(kids)
         IN  IF getStatus(its[child_item]) = "Excluded from analysis"
                THEN start_workflows_each(Tail(kids), r, its, roi)
                ELSE queue_workflow_task(child_item, r, its, roi)
                        \o start_workflows_below(child_item, r, its, roi)
                        \o start_workflows_each(Tail(kids), r, its, roi)
start_workflows_below(parent_item, r, its, roi) ==
    start_workflows_each(childItems(parent_item), r, its, roi)

start_workflows(type, its, roi) == start_workflows_below("root", role_of_type(type), its, roi)

\* queue_workflow_task, lines 981-989: the analysis mode written on a queued
\* factor, dimension or analysis item
with_aggregation_mode(its, tasks) ==
    [n \in Nodes |->
        IF (\E k \in 1..Len(tasks) : tasks[k] = n) /\ role[n] # "indicator"
            THEN [its[n] EXCEPT !.analysis_mode =
                    IF role[n] = "factor" THEN <<"factor_aggregation">>
                    ELSE IF role[n] = "dimension" THEN <<"dimension_aggregation">>
                    ELSE <<"analysis_aggregation">>]
            ELSE its[n]]

\* queue manager: bounded worker pool
PoolSize == 1

\* queue manager, start_processing: with nothing queued and nothing running
\* the phase is drained at once and processing_completed is emitted
start_processing(jq, act) == jq = <<>> /\ act = {}

\* run_next_workflow_queue that reads the head of the phase list and leaves it
\* in the list
run_next_workflow_queue_no_pop(wq, its, roi, jq, ps, qp) ==
    IF Len(wq) = 0
        THEN /\ ui_busy' = FALSE
             /\ workflow_queue' = wq
             /\ items' = its
             /\ job_queue' = jq
             /\ completed_signal' = FALSE
             /\ phases_started' = ps
             /\ queued_in_pass' = qp
        ELSE LET next_workflow == Head(wq)
                 tasks == start_workflows(next_workflow, its, roi)
             IN  /\ workflow_queue' = wq
                 /\ items' = with_aggregation_mode(its, tasks)
                 /\ job_queue' = jq \o tasks
                 /\ completed_signal' = start_processing(jq \o tasks, active)
                 /\ phases_started' = IF Len(ps) < 6 THEN Append(ps, next_workflow) ELSE ps
                 /\ queued_in_pass' = qp \cup {tasks[k] : k \in 1..Len(tasks)}
                 /\ ui_busy' = TRUE

\* run_next_workflow_queue, lines 1212-1230
run_next_workflow_queue(wq, its, roi, jq, ps, qp) ==
    IF Len(wq) = 0
        THEN /\ ui_busy' = FALSE
             /\ workflow_queue' = wq
             /\ items' = its
             /\ job_queue' = jq
             /\ completed_signal' = FALSE
             /\ phases_started' = ps
             /\ queued_in_pass' = qp
        ELSE LET next_workflow == Head(wq)
                 tasks == start_workflows(next_workflow, its, roi)
             IN  /\ workflow_queue' = Tail(wq)
                 /\ items' = with_aggregation_mode(its, tasks)
                 /\ job_queue' = jq \o tasks
                 /\ completed_signal' = start_processing(jq \o tasks, active)
                 /\ phases_started' = Append(ps, next_workflow)
                 /\ queued_in_pass' = qp \cup {tasks[k] : k \in 1..Len(tasks)}
                 /\ ui_busy' = TRUE

\* JsonTreeItem.clear as described at tree_panel.py line 255: "sets status to
\* not run and blanks file path"
clear(data) == [data EXCEPT !.result = NotRunText, !.result_file = ""]

\* clear_all_items that clears the root item only
clear_all_items_root_only(its) == its

\* clear_all_items, lines 249-256
clear_all_items(its) == [n \in Nodes |-> clear(its[n])]

\* history: the tasks run_next_workflow_queue adds for the phase at the head
\* of wq, each with the phase and whether the item had a result file
HasResultFile(its, n) == Truthy(PathGet(its[n].result_file, PyNone))
\* history: the item or an item above it has been disabled by the user
RECURSIVE DisabledAbove(_, _)
DisabledAbove(its, n) ==
    \/ its[n].disabled
    \/ n # "A" /\ DisabledAbove(its, parentItem[n])
log_after(wq, its, roi, log) ==
    IF Len(wq) = 0 THEN log
    ELSE LET tasks == start_workflows(Head(wq), its, roi)
         IN  log \o [k \in 1..Len(tasks) |->
                        [node |-> tasks[k], phase |-> Head(wq),
                         had_file |-> HasResultFile(its, tasks[k]),
                         result |-> its[tasks[k]].result,
                         excluded |-> DisabledAbove(its, tasks[k])]]

\* _count_workflows_to_run, lines 942-961: the items counted below parent_item
RECURSIVE count_workflows_to_run(_, _, _)
RECURSIVE count_workflows_each(_, _, _)
count_workflows_each(kids, its, roi) ==
    IF kids = <<>> THEN 0
    ELSE LET child_item == Head(kids)
             is_complete == getStatus(its[child_item]) = "Workflow Completed"
             is_disabled == getStatus(its[child_item]) = "Excluded from analysis"
         IN  count_workflows_to_run(child_item, its, roi)
             + (IF is_disabled THEN 0
                ELSE IF ~is_complete THEN 1
                ELSE IF is_complete /\ ~roi THEN 1
                ELSE 0)
             + count_workflows_each(Tail(kids), its, roi)
count_workflows_to_run(parent_item, its, roi) ==
    count_workflows_each(childItems(parent_item), its, roi)

\* QProgressBar.setValue: a value outside the range of the bar has no effect
setValue(bar, v) == IF v < 0 \/ v > bar.maximum THEN bar ELSE [bar EXCEPT !.value = v]

\* _queue_workflows, lines 1207-1208: the bar set to 0 of items_to_run
queue_workflows_progress(items_to_run) ==
    [items_to_run |-> items_to_run, value |-> 0, maximum |-> items_to_run]

\* on_workflow_completed, line 1132
on_workflow_completed(bar) == setValue(bar, bar.value + 1)

\* no pass is in progress
PassIdle ==
    /\ workflow_queue = <<>>
    /\ job_queue = <<>>
    /\ active = {}
    /\ ~completed_signal
    /\ ~ui_busy

\* run_all, lines 1177-1184, with _queue_workflows, lines 1197-1210
run_all ==
    /\ PassIdle
    /\ passes < MaxPasses
    /\ passes' = passes + 1
    /\ pass_kind' = "all"
    /\ run_only_incomplete' = FALSE
    /\ finished_in_pass' = {}
    /\ run_next_workflow_queue(PhaseOrder, clear_all_items(items), FALSE, job_queue,
                               <<>>, {})
    /\ pass_log' = [populated |-> {n \in present : HasResultFile(clear_all_items(items), n)},
                    queued |-> log_after(PhaseOrder, clear_all_items(items), FALSE, <<>>)]
    /\ progress' = queue_workflows_progress(
                        count_workflows_to_run("root", clear_all_items(items), FALSE))
    /\ UNCHANGED <<present, active>>
    /\ UNCHANGED notSched

\* run_incomplete, lines 1186-1195, with _queue_workflows, lines 1197-1210
run_incomplete ==
    /\ PassIdle
    /\ passes < MaxPasses
    /\ passes' = passes + 1
    /\ pass_kind' = "incomplete"
    /\ run_only_incomplete' = TRUE
    /\ finished_in_pass' = {}
    /\ run_next_workflow_queue(PhaseOrder, items, TRUE, job_queue, <<>>, {})
    /\ pass_log' = [populated |-> {n \in present : HasResultFile(items, n)},
                    queued |-> log_after(PhaseOrder, items, TRUE, <<>>)]
    /\ progress' = queue_workflows_progress(count_workflows_to_run("root", items, TRUE))
    /\ UNCHANGED <<present, active>>
    /\ UNCHANGED notSched

\* queue manager: a free worker takes the task at the head of the queue
TaskStart ==
    /\ job_queue # <<>>
    /\ Cardinality(active) < PoolSize
    /\ active' = active \cup {Head(job_queue)}
    /\ job_queue' = Tail(job_queue)
    /\ UNCHANGED <<present, items, run_only_incomplete, workflow_queue, ui_busy,
                   completed_signal, pass_kind, passes, phases_started,
                   queued_in_pass, finished_in_pass, pass_log, progress>>
    /\ UNCHANGED notSched

\* A running task ends: execute() has written the item (lines 321-323 or
\* 352-353), the job reports finished (the slot on_workflow_completed
\* advances the overall progress bar), and the queue manager emits
\* processing_completed when nothing is queued or running any more.
TaskFinish(n, success) ==
    /\ n \in active
    /\ active' = active \ {n}
    /\ items' = [items EXCEPT ![n].result = IF success THEN CompletedText ELSE ErrorText,
                              ![n].result_file = IF success THEN "wf_combined.vrt" ELSE ""]
    /\ finished_in_pass' = finished_in_pass \cup {n}
    /\ completed_signal' = (job_queue = <<>> /\ active' = {})
    /\ progress' = on_workflow_completed(progress)
    /\ UNCHANGED <<present, run_only_incomplete, workflow_queue, ui_busy, job_queue,
                   pass_kind, passes, phases_started, queued_in_pass, pass_log>>
    /\ UNCHANGED notSched

\* the slot connected to processing_completed at line 196
on_processing_completed ==
    /\ completed_signal
    /\ run_next_workflow_queue(workflow_queue, items, run_only_incomplete, job_queue,
                               phases_started, queued_in_pass)
    /\ pass_log' = [pass_log EXCEPT !.queued =
                        log_after(workflow_queue, items, run_only_incomplete, @)]
    /\ UNCHANGED <<present, run_only_incomplete, active, pass_kind, passes,
                   finished_in_pass, progress>>
    /\ UNCHANGED notSched

InitSched ==
    /\ ExecIdle
    /\ child_cancel = NoCancel
    /\ pass_log = NoLog
    /\ FilesIdle
    /\ ras = NoRasters
    /\ grid = NoGrid
    /\ study = NoStudy
    /\ doc = NoDoc
    /\ factory = NoFactory
    /\ job = NoJobs
    /\ invoked = NoneInvoked
    /\ mosaic = NoMosaic
    /\ item_status = NoStatus
    /\ processor = NoProcessor
    /\ progress = NoProgress
    /\ lookup = NoLookup
    /\ present \in TreeShapes
    /\ SchedFresh

NextSched ==
    \/ run_all
    \/ run_incomplete
    \/ TaskStart
    \/ \E n \in Nodes, success \in BOOLEAN : TaskFinish(n, success)
    \/ on_processing_completed

SpecSched == InitSched /\ [][NextSched]_vars

\* The event loop delivers every emitted signal, a free worker takes a queued
\* task, and every workflow returns.
SpecSchedFair ==
    /\ SpecSched
    /\ WF_vars(TaskStart)
    /\ WF_vars(\E n \in Nodes, success \in BOOLEAN : TaskFinish(n, success))
    /\ WF_vars(on_processing_completed)

\* ------------------------------------------------------------------ GUI
\* "Clear Results" of the context menu (lines 427-428): clear_workflows,
\* lines 216-247. The menu is offered whatever the queue manager is doing.
clear_workflows ==
    /\ run_only_incomplete' = FALSE
    /\ items' = clear_all_items(items)
    /\ UNCHANGED <<present, workflow_queue, ui_busy, job_queue, active,
                   completed_signal, pass_kind, passes, phases_started,
                   queued_in_pass, finished_in_pass, pass_log, progress>>
    /\ UNCHANGED notSched

NextGui ==
    \/ NextSched
    \/ clear_workflows

\* SpecGui : the passes of SpecSched with the user's context-menu action
SpecGui == InitSched /\ [][NextGui]_vars

\* ------------------------------------------------------------- run item
\* "Run Item Workflow" of the context menu: run_item, lines 1003-1039.
\* The tasks one call queues, in order: for each child the tasks of the
\* recursive call when the child has children, then the child itself, and at
\* the end the item itself.
RECURSIVE run_item(_, _, _)
RECURSIVE run_item_each(_, _, _)
run_item_each(kids, its, roi) ==
    IF kids = <<>> THEN <<>>
    ELSE LET child_item == Head(kids)
             is_complete == getStatus(its[child_item]) = "Workflow Completed"
         IN  (IF childItems(child_item) # <<>> THEN run_item(child_item, its, roi)
              ELSE <<>>)
             \o (IF ~is_complete
                    THEN queue_workflow_task(child_item, role[child_item], its, roi)
                    ELSE <<>>)
             \o (IF is_complete /\ ~roi
                    THEN queue_workflow_task(child_item, role[child_item], its, roi)
                    ELSE <<>>)
             \o run_item_each(Tail(kids), its, roi)
run_item(item, its, roi) ==
    run_item_each(childItems(item), its, roi)
        \o queue_workflow_task(item, role[item], its, roi)

\* run_item, lines 1014 and 1033: items_to_run is reset at the start of every
\* call, the recursive ones included, and the count of the item's subtree is
\* added at the end of every call
RECURSIVE run_item_items_to_run(_, _, _)
run_item_items_to_run(item, its, roi) ==
    LET parents == SelectSeq(childItems(item), LAMBDA c : childItems(c) # <<>>)
    IN  (IF parents = <<>> THEN 0
         ELSE run_item_items_to_run(parents[Len(parents)], its, roi))
        + count_workflows_to_run(item, its, roi)

\* the user runs one item; shift forces the recalculation
RunItem(item, shift_pressed) ==
    /\ PassIdle
    /\ passes < MaxPasses
    /\ item \in present
    /\ LET roi == ~shift_pressed
           tasks == run_item(item, items, roi)
       IN  /\ run_only_incomplete' = roi
           /\ items' = with_aggregation_mode(items, tasks)
           /\ job_queue' = job_queue \o tasks
           /\ completed_signal' = start_processing(job_queue \o tasks, active)
           /\ queued_in_pass' = {tasks[k] : k \in 1..Len(tasks)}
           /\ pass_log' = [populated |-> {n \in present : HasResultFile(items, n)},
                           queued |-> [k \in 1..Len(tasks) |->
                                          [node |-> tasks[k], phase |-> item,
                                           had_file |-> HasResultFile(items, tasks[k]),
                                           result |-> items[tasks[k]].result,
                                           excluded |-> DisabledAbove(items, tasks[k])]]]
           /\ progress' = [progress EXCEPT
                               !.items_to_run = run_item_items_to_run(item, items, roi)]
    /\ passes' = passes + 1
    /\ pass_kind' = "item"
    /\ phases_started' = <<>>
    /\ finished_in_pass' = {}
    /\ UNCHANGED <<present, workflow_queue, ui_busy, active>>
    /\ UNCHANGED notSched

NextItem ==
    \/ NextSched
    \/ \E item \in Nodes, shift_pressed \in BOOLEAN : RunItem(item, shift_pressed)

\* SpecItem : the passes of SpecSched and the runs of single items
SpecItem == InitSched /\ [][NextItem]_vars

\* ---------------------------------------------------------- disable item
\* "Disable" of the context menu: disable_item, lines 531-533, calls
\* JsonTreeItem.disable, "Disable the item and its children": the item and
\* the items below it get the status Excluded.
RECURSIVE Below(_, _)
Below(n, item) == n = item \/ (n # "A" /\ Below(parentItem[n], item))
disable(its, item) ==
    [n \in Nodes |-> IF Below(n, item) THEN [its[n] EXCEPT !.disabled = TRUE] ELSE its[n]]

\* The menu offers Disable for an item whose getStatus() is not "Excluded
\* from analysis" and Enable otherwise (lines 404-409). The user is taken to
\* disable items between passes, while a further pass can follow.
disable_item(item) ==
    /\ PassIdle
    /\ passes < MaxPasses
    /\ item \in present
    /\ getStatus(items[item]) # "Excluded from analysis"
    /\ items' = disable(items, item)
    /\ UNCHANGED <<present, run_only_incomplete, workflow_queue, ui_busy, job_queue,
                   active, completed_signal, pass_kind, passes, phases_started,
                   queued_in_pass, finished_in_pass, pass_log, progress>>
    /\ UNCHANGED notSched

NextDisable ==
    \/ NextSched
    \/ \E item \in Nodes : disable_item(item)

\* SpecDisable : the passes of SpecSched on a tree in which the user
\*               disables items
SpecDisable == InitSched /\ [][NextDisable]_vars

\* ================================================================ files
\* SpecFiles : the files the workflows of two indicators and their factor
\*             write, tile by tile.
FileNodes == {"I1", "I2", "F1"}

\* JsonTreeItem.getPaths, lines 234-258; an item's id in lower case
item_id(n) ==
    CASE n = "A" -> "a" [] n = "D1" -> "d1" [] n = "D2" -> "d2"
      [] n = "F1" -> "f1" [] n = "I1" -> "i1" [] n = "I2" -> "i2"
getPaths(n) ==
    IF role[n] = "indicator"
        THEN <<item_id(parentItem[parentItem[n]]), item_id(parentItem[n]), item_id(n)>>
    ELSE IF role[n] = "factor" THEN <<item_id(parentItem[n]), item_id(n)>>
    ELSE IF role[n] = "dimension" THEN <<item_id(n)>>
    ELSE <<>>

\* _create_workflow_directory, lines 365-378
workflow_directory(n) == <<"working_directory">> \o getPaths(n)

\* tempfile.gettempdir()
gettempdir == <<"tmp">>

File(dir, stem, name, idx) == [dir |-> dir, stem |-> stem, name |-> name, index |-> idx]

\* _mask_raster with the mask shapefile written next to the masked raster
mask_raster_files_in_directory(n, idx) ==
    {File(workflow_directory(n), item_id(n), "masked.tif", idx),
     File(workflow_directory(n), "mask_layer", "shp", idx)}

\* _mask_raster, lines 577-588: the masked raster and the mask shapefile
mask_raster_files(n, idx) ==
    {File(workflow_directory(n), item_id(n), "masked.tif", idx),
     File(gettempdir, "mask_layer", "shp", idx)}

\* the files one step of execute() writes for tile idx
files_of(n, step, idx) ==
    CASE step = "subset" ->
            {File(workflow_directory(n), item_id(n), "area_features.shp", idx)}
      [] step = "produce" ->
            IF role[n] = "indicator"
                THEN {File(workflow_directory(n), item_id(n), "tif", idx)}
                ELSE {File(workflow_directory(n), item_id(n), nm, idx) :
                        nm \in {"merged.tif", "zero_mask_byte.tif", "zero_mask.tif",
                                "one_mask_byte.tif", "final_layer.tif", "aggregated.tif"}}
      [] step = "mask" -> mask_raster_files(n, idx)
      [] step = "mosaic" ->
            {File(workflow_directory(n), item_id(n), "combined.vrt", -1),
             File(workflow_directory(n), item_id(n), "combined.qml", -1)}
      [] step = "error" -> {File(workflow_directory(n), "error", "txt", -1)}

Writes(n, step, idx) == {[node |-> n, file |-> f] : f \in files_of(n, step, idx)}

\* the first step of a tile: an aggregation has no subset step
first_step(n) == IF role[n] = "indicator" THEN "subset" ELSE "produce"

InitFiles ==
    /\ ExecIdle
    /\ child_cancel = NoCancel
    /\ pass_log = NoLog
    /\ present = Nodes
    /\ SchedFresh
    /\ written = {}
    /\ file_pc = [n \in FileNodes |-> [index |-> 0, step |-> first_step(n)]]
    /\ ras = NoRasters
    /\ grid = NoGrid
    /\ study = NoStudy
    /\ doc = NoDoc
    /\ factory = NoFactory
    /\ job = NoJobs
    /\ invoked = NoneInvoked
    /\ mosaic = NoMosaic
    /\ item_status = NoStatus
    /\ processor = NoProcessor
    /\ progress = NoProgress
    /\ lookup = NoLookup

\* lines 274-301: the subset of the tile
FileSubset(n) ==
    /\ file_pc[n].step = "subset"
    /\ file_pc[n].index < MaxTiles
    /\ written' = written \cup Writes(n, "subset", file_pc[n].index)
    /\ file_pc' = [file_pc EXCEPT ![n].step = "produce"]
    /\ UNCHANGED notFiles

\* lines 283-309: the production step of the tile
FileProduce(n) ==
    /\ file_pc[n].step = "produce"
    /\ file_pc[n].index < MaxTiles
    /\ written' = written \cup Writes(n, "produce", file_pc[n].index)
    /\ file_pc' = [file_pc EXCEPT ![n].step = "mask"]
    /\ UNCHANGED notFiles

\* lines 311-318: the mask of the tile, then the next tile
FileMask(n) ==
    /\ file_pc[n].step = "mask"
    /\ written' = written \cup Writes(n, "mask", file_pc[n].index)
    /\ file_pc' = [file_pc EXCEPT ![n] = [index |-> @.index + 1, step |-> first_step(n)]]
    /\ UNCHANGED notFiles

\* lines 319-334: the mosaic after the last tile
FileMosaic(n) ==
    /\ file_pc[n].step = first_step(n)
    /\ file_pc[n].index = MaxTiles
    /\ written' = written \cup Writes(n, "mosaic", -1)
    /\ file_pc' = [file_pc EXCEPT ![n].step = "done"]
    /\ UNCHANGED notFiles

\* lines 336-363: a step raised, the traceback is written
FileError(n) ==
    /\ file_pc[n].step \notin {"done", "failed"}
    /\ written' = written \cup Writes(n, "error", -1)
    /\ file_pc' = [file_pc EXCEPT ![n].step = "failed"]
    /\ UNCHANGED notFiles

NextFiles ==
    \/ \E n \in FileNodes : FileSubset(n)
    \/ \E n \in FileNodes : FileProduce(n)
    \/ \E n \in FileNodes : FileMask(n)
    \/ \E n \in FileNodes : FileMosaic(n)
    \/ \E n \in FileNodes : FileError(n)

SpecFiles == InitFiles /\ [][NextFiles]_vars

\* ============================================================== rasters
\* SpecRas : one aggregate() call on the tile rasters of two children, pixel
\*           by pixel. A raster is a row of pixels on the tile's grid: its
\*           first column, its pixel values and its nodata value. Weights are
\*           in hundredths, so the aggregated values are in hundredths too.
NoData == -9999
ByteNoData == 255
PixelValues == {NoData, 0, 2}
Raster(off, data, nodata) == [off |-> off, data |-> data, nodata |-> nodata]
Cols(r) == Len(r.data)

\* the masked tile rasters of a child (dstNodata=-9999, workflow_base.py:623)
ChildRasters ==
    UNION {{Raster(off, d, NoData) :
                d \in UNION {[1..n -> PixelValues] : n \in 1..(MaxWidth - off)}} :
           off \in 0..(MaxWidth - 1)}

SetMin(S) == CHOOSE x \in S : \A y \in S : x <= y
SetMax(S) == CHOOSE x \in S : \A y \in S : x >= y

\* union of the extents, lines 288-306, 320-323
union_ulx(input_files) == SetMin({input_files[k].off : k \in 1..Len(input_files)})
union_lrx(input_files) ==
    SetMax({input_files[k].off + Cols(input_files[k]) : k \in 1..Len(input_files)})

\* the copy loop of merge_rasters that writes every pixel of a source,
\* nodata included
RECURSIVE merge_copy_all(_, _, _, _)
merge_copy_all(out_data, ulx, input_files, k) ==
    IF k > Len(input_files) THEN out_data
    ELSE LET src == input_files[k]
             dst_xoff == src.off - ulx
         IN  merge_copy_all(
                [x \in 1..Len(out_data) |->
                    IF (x - dst_xoff) \in 1..Cols(src)
                        THEN src.data[x - dst_xoff]
                        ELSE out_data[x]],
                ulx, input_files, k + 1)

\* the copy loop of merge_rasters, lines 338-368
RECURSIVE merge_copy(_, _, _, _)
merge_copy(out_data, ulx, input_files, k) ==
    IF k > Len(input_files) THEN out_data
    ELSE LET src == input_files[k]
             dst_xoff == src.off - ulx
         IN  merge_copy(
                [x \in 1..Len(out_data) |->
                    IF (x - dst_xoff) \in 1..Cols(src)
                            /\ src.data[x - dst_xoff] # src.nodata
                        THEN src.data[x - dst_xoff]
                        ELSE out_data[x]],
                ulx, input_files, k + 1)

\* merge_rasters, lines 267-374
merge_rasters(input_files, nodata_value) ==
    LET ulx == union_ulx(input_files)
        cols == union_lrx(input_files) - ulx
        filled == [x \in 1..cols |-> nodata_value]
    IN  Raster(ulx, merge_copy(filled, ulx, input_files, 1), nodata_value)

\* gdal:rastercalculator on one input: an input pixel that is nodata gives
\* the output nodata value, every other pixel the value of the formula
rastercalculator_1(A, formula, no_data) ==
    Raster(A.off,
           [x \in 1..Cols(A) |->
                IF A.data[x] = A.nodata THEN no_data
                ELSE IF formula = "A<0" THEN (IF A.data[x] < 0 THEN 1 ELSE 0)
                ELSE (IF A.data[x] >= 0 THEN 1 ELSE 0)],
           no_data)

\* gdal.Translate, lines 169-178: to Float32 with nodata -9999; keeps says
\* whether the Byte nodata pixels keep their value 255 or become -9999
gdal_translate(src, keeps) ==
    Raster(src.off,
           [x \in 1..Cols(src) |->
                IF src.data[x] = src.nodata /\ ~keeps THEN NoData ELSE src.data[x]],
           NoData)

\* gdal:merge that copies every pixel of a source, nodata included
gdal_merge_copy_all(inputs, nodata_output) ==
    LET ulx == union_ulx(inputs)
        cols == union_lrx(inputs) - ulx
    IN  Raster(ulx, merge_copy_all([x \in 1..cols |-> 0], ulx, inputs, 1), nodata_output)

\* gdal:merge, lines 210-224: the output starts at 0, each source in turn is
\* copied over it where the source is not nodata, NODATA_OUTPUT is assigned
gdal_merge(inputs, nodata_output) ==
    LET ulx == union_ulx(inputs)
        cols == union_lrx(inputs) - ulx
    IN  Raster(ulx, merge_copy([x \in 1..cols |-> 0], ulx, inputs, 1), nodata_output)

\* the weighted sum of step 4 without the one-based mask as an input
weighted_combination_unmasked(final_outputs, weights, mask) ==
    Raster(mask.off,
           [x \in 1..Cols(mask) |->
                IF \E i \in 1..Len(final_outputs) :
                        final_outputs[i].data[x] = final_outputs[i].nodata
                    THEN NoData
                    ELSE weights[1] * final_outputs[1].data[x]
                            + weights[2] * final_outputs[2].data[x]],
           NoData)

\* gdal:rastercalculator of step 4, lines 248-293: mask * (w1 * A + w2 * B),
\* nodata wherever an input is nodata
weighted_combination(final_outputs, weights, mask) ==
    Raster(mask.off,
           [x \in 1..Cols(mask) |->
                IF mask.data[x] = mask.nodata
                        \/ \E i \in 1..Len(final_outputs) :
                                final_outputs[i].data[x] = final_outputs[i].nodata
                    THEN NoData
                    ELSE mask.data[x] * (weights[1] * final_outputs[1].data[x]
                                            + weights[2] * final_outputs[2].data[x])],
           NoData)

InitRas ==
    /\ ExecIdle
    /\ child_cancel = NoCancel
    /\ pass_log = NoLog
    /\ FilesIdle
    /\ present = {"A"}
    /\ SchedFresh
    /\ grid = NoGrid
    /\ study = NoStudy
    /\ doc = NoDoc
    /\ factory = NoFactory
    /\ job = NoJobs
    /\ invoked = NoneInvoked
    /\ mosaic = NoMosaic
    /\ item_status = NoStatus
    /\ processor = NoProcessor
    /\ progress = NoProgress
    /\ lookup = NoLookup
    /\ ras \in {[stage |-> "start", input_files |-> <<a, b>>,
                 weights |-> <<weight_of["c1"], weight_of["c2"]>>,
                 keeps |-> kp] :
                    a \in ChildRasters, b \in ChildRasters, kp \in BOOLEAN}

\* step 1, lines 96-115
RasMerge ==
    /\ ras.stage = "start"
    /\ ras' = [stage |-> "merged", input_files |-> ras.input_files,
               weights |-> ras.weights, keeps |-> ras.keeps,
               merged_output |-> merge_rasters(ras.input_files, NoData)]
    /\ UNCHANGED notRas

\* step 2, lines 117-192
RasMasks ==
    /\ ras.stage = "merged"
    /\ LET zero_mask_output_byte == rastercalculator_1(ras.merged_output, "A<0", ByteNoData)
           one_mask_output_byte == rastercalculator_1(ras.merged_output, "A>=0", ByteNoData)
       IN  ras' = [stage |-> "masked", input_files |-> ras.input_files,
                   weights |-> ras.weights, keeps |-> ras.keeps,
                   merged_output |-> ras.merged_output,
                   one_mask_output_byte |-> one_mask_output_byte,
                   zero_mask_output |-> gdal_translate(zero_mask_output_byte, ras.keeps)]
    /\ UNCHANGED notRas

\* step 3, lines 194-238
RasFinals ==
    /\ ras.stage = "masked"
    /\ ras' = [stage |-> "final", input_files |-> ras.input_files,
               weights |-> ras.weights, keeps |-> ras.keeps,
               merged_output |-> ras.merged_output,
               one_mask_output_byte |-> ras.one_mask_output_byte,
               final_outputs |->
                    [i \in 1..Len(ras.input_files) |->
                        gdal_merge(<<ras.zero_mask_output, ras.input_files[i]>>, NoData)]]
    /\ UNCHANGED notRas

\* step 4, lines 240-313
RasWeighted ==
    /\ ras.stage = "final"
    /\ ras' = [stage |-> "done", input_files |-> ras.input_files,
               weights |-> ras.weights, keeps |-> ras.keeps,
               merged_output |-> ras.merged_output,
               aggregation_output |->
                    weighted_combination(ras.final_outputs, ras.weights,
                                         ras.one_mask_output_byte)]
    /\ UNCHANGED notRas

NextRas ==
    \/ RasMerge
    \/ RasMasks
    \/ RasFinals
    \/ RasWeighted

SpecRas == InitRas /\ [][NextRas]_vars

\* ================================================================= grid
\* SpecGrid : one call of StudyAreaProcessingTask.grid_aligned_bbox.
\*            Coordinates and the cell size are whole numbers of one unit,
\*            so // is \div (both round towards minus infinity).
Coords == (0 - MaxCoord)..MaxCoord
LayerMinima == {-3, 2}
Rect(xMinimum, yMinimum, xMaximum, yMaximum) ==
    [xMinimum |-> xMinimum, yMinimum |-> yMinimum,
     xMaximum |-> xMaximum, yMaximum |-> yMaximum]

\* Python's a // b for b # 0: the quotient rounded towards minus infinity
floordiv(a, b) == IF b > 0 THEN a \div b ELSE (0 - a) \div (0 - b)

\* lines 370-375: the grid origin at or below the layer corner
study_area_origin(layer_minimum, cell_size_m) ==
    floordiv(layer_minimum, cell_size_m) * cell_size_m

\* the minimum edge offset by one cell, without the snap of lines 378-391
aligned_minimum_unsnapped(origin, minimum, cell_size_m) ==
    minimum - cell_size_m

\* lines 378-391 with 415-426: the minimum edge, offset by one cell
aligned_minimum(origin, minimum, cell_size_m) ==
    (origin + floordiv(minimum - origin, cell_size_m) * cell_size_m) - cell_size_m

\* the maximum edge without the offset of lines 415-426
aligned_maximum_without_offset(origin, maximum, cell_size_m) ==
    origin + (floordiv(maximum - origin, cell_size_m) + 1) * cell_size_m

\* lines 392-413 with 415-426: the maximum edge, offset by one cell
aligned_maximum(origin, maximum, cell_size_m) ==
    (origin + (floordiv(maximum - origin, cell_size_m) + 1) * cell_size_m) + cell_size_m

\* grid_aligned_bbox, lines 350-429, on the transformed bounding box
grid_aligned_bbox(bbox_transformed, layer_bbox, cell_size_m) ==
    LET study_area_origin_x == study_area_origin(layer_bbox.xMinimum, cell_size_m)
        study_area_origin_y == study_area_origin(layer_bbox.yMinimum, cell_size_m)
    IN  Rect(aligned_minimum(study_area_origin_x, bbox_transformed.xMinimum, cell_size_m),
             aligned_minimum(study_area_origin_y, bbox_transformed.yMinimum, cell_size_m),
             aligned_maximum(study_area_origin_x, bbox_transformed.xMaximum, cell_size_m),
             aligned_maximum(study_area_origin_y, bbox_transformed.yMaximum, cell_size_m))

InitGrid ==
    /\ ExecIdle
    /\ child_cancel = NoCancel
    /\ pass_log = NoLog
    /\ FilesIdle
    /\ present = {"A"}
    /\ SchedFresh
    /\ ras = NoRasters
    /\ study = NoStudy
    /\ doc = NoDoc
    /\ factory = NoFactory
    /\ job = NoJobs
    /\ invoked = NoneInvoked
    /\ mosaic = NoMosaic
    /\ item_status = NoStatus
    /\ processor = NoProcessor
    /\ progress = NoProgress
    /\ lookup = NoLookup
    /\ grid \in {[stage |-> "input", bbox |-> Rect(x1, y1, x2, y2),
                  layer_bbox |-> [xMinimum |-> lx, yMinimum |-> ly],
                  cell_size_m |-> c] :
                    x1 \in Coords, y1 \in Coords, x2 \in Coords, y2 \in Coords,
                    lx \in LayerMinima, ly \in LayerMinima, c \in 1..MaxCell}
    /\ grid.bbox.xMinimum <= grid.bbox.xMaximum
    /\ grid.bbox.yMinimum <= grid.bbox.yMaximum

\* one call; a cell size of zero makes the first // of line 371 raise
\* ZeroDivisionError, and no other line of the function tests the cell size
AlignBbox ==
    /\ grid.stage = "input"
    /\ grid' = IF grid.cell_size_m = 0
               THEN [stage |-> "raised", bbox |-> grid.bbox, layer_bbox |-> grid.layer_bbox,
                     cell_size_m |-> grid.cell_size_m]
               ELSE [stage |-> "aligned", bbox |-> grid.bbox, layer_bbox |-> grid.layer_bbox,
                     cell_size_m |-> grid.cell_size_m,
                     aligned |-> grid_aligned_bbox(grid.bbox, grid.layer_bbox, grid.cell_size_m)]
    /\ UNCHANGED notGrid

NextGrid == AlignBbox

SpecGrid == InitGrid /\ [][NextGrid]_vars

\* the same call with any cell size, zero and negative ones included
InitGridAny ==
    /\ ExecIdle
    /\ child_cancel = NoCancel
    /\ pass_log = NoLog
    /\ FilesIdle
    /\ present = {"A"}
    /\ SchedFresh
    /\ ras = NoRasters
    /\ study = NoStudy
    /\ doc = NoDoc
    /\ factory = NoFactory
    /\ job = NoJobs
    /\ invoked = NoneInvoked
    /\ mosaic = NoMosaic
    /\ item_status = NoStatus
    /\ processor = NoProcessor
    /\ progress = NoProgress
    /\ lookup = NoLookup
    /\ grid \in {[stage |-> "input", bbox |-> Rect(x1, y1, x2, y2),
                  layer_bbox |-> [xMinimum |-> lx, yMinimum |-> ly],
                  cell_size_m |-> c] :
                    x1 \in Coords, y1 \in {0, 1}, x2 \in Coords, y2 \in {1, 3},
                    lx \in LayerMinima, ly \in LayerMinima, c \in (0 - MaxCell)..MaxCell}
    /\ grid.bbox.xMinimum <= grid.bbox.xMaximum

SpecGridAny == InitGridAny /\ [][NextGrid]_vars

\* ================================================================= area
\* SpecArea : one StudyAreaProcessingTask. The state starts before line 133
\*            of __init__, with layer_bbox the extent of the layer; the
\*            constructor aligns layer_bbox and stores the result in
\*            layer_bbox, then process_singlepart_geometry aligns the
\*            bounding box of each part.

\* lines 360-367: the bbox in the output CRS; crs_shift is 0 when the
\* layer is in the output CRS already, and the transform is a translation
transformBoundingBox(bbox, crs_shift) ==
    Rect(bbox.xMinimum + crs_shift, bbox.yMinimum + crs_shift,
         bbox.xMaximum + crs_shift, bbox.yMaximum + crs_shift)

\* one call self.grid_aligned_bbox(bbox): the origin it computes from the
\* layer_bbox of that moment (lines 370-375) and the box it returns
aligned_call(st, bbox) ==
    [origin |-> <<study_area_origin(st.layer_bbox.xMinimum, st.cell_size_m),
                  study_area_origin(st.layer_bbox.yMinimum, st.cell_size_m)>>,
     box |-> grid_aligned_bbox(transformBoundingBox(bbox, st.crs_shift),
                               st.layer_bbox, st.cell_size_m)]

\* bounding boxes of the parts of the layer
PartBoxes == {Rect(x, y, x + 1, y + 1) : x \in Coords, y \in {0, 2}}

InitArea ==
    /\ ExecIdle
    /\ child_cancel = NoCancel
    /\ pass_log = NoLog
    /\ FilesIdle
    /\ present = {"A"}
    /\ SchedFresh
    /\ ras = NoRasters
    /\ grid = NoGrid
    /\ doc = NoDoc
    /\ factory = NoFactory
    /\ job = NoJobs
    /\ invoked = NoneInvoked
    /\ mosaic = NoMosaic
    /\ item_status = NoStatus
    /\ processor = NoProcessor
    /\ progress = NoProgress
    /\ lookup = NoLookup
    /\ study \in {[stage |-> "init", layer_bbox |-> Rect(lx, ly, lx + 2, ly + 2),
                   cell_size_m |-> c, crs_shift |-> sh, calls |-> {}] :
                     lx \in LayerMinima, ly \in LayerMinima,
                     c \in 1..MaxCell, sh \in {0, 2}}

\* __init__, line 133: self.layer_bbox = self.grid_aligned_bbox(self.layer_bbox)
StudyAreaProcessingTask ==
    /\ study.stage = "init"
    /\ LET call == aligned_call(study, study.layer_bbox)
       IN  study' = [study EXCEPT !.stage = "ready", !.layer_bbox = call.box,
                                  !.calls = {[by |-> "__init__", origin |-> call.origin,
                                              box |-> call.box]}]
    /\ UNCHANGED notArea

\* process_singlepart_geometry, line 291, for one more part
process_singlepart_geometry(bbox) ==
    /\ study.stage = "ready"
    /\ Cardinality({c \in study.calls : c.by = "part"}) < MaxParts
    /\ LET call == aligned_call(study, bbox)
       IN  study' = [study EXCEPT !.calls = @ \cup {[by |-> "part", origin |-> call.origin,
                                                     box |-> call.box]}]
    /\ UNCHANGED notArea

NextArea ==
    \/ StudyAreaProcessingTask
    \/ \E bbox \in PartBoxes : process_singlepart_geometry(bbox)

SpecArea == InitArea /\ [][NextArea]_vars

\* ================================================================== doc
\* SpecDoc : JsonTreeModel.loadJsonData followed by JsonTreeModel.to_json.
\*           A dict is a function from its keys; every leaf value is a
\*           string. An item is its role, its itemData and its childItems.

\* dict.get(k, default)
dict_get(d, k, default) == IF k \in DOMAIN d THEN d[k] ELSE default

\* treeview.py lines 58-202: loadJsonData with _create_dimension_item,
\* _create_factor_item and _create_indicator_item; the result is the
\* "Analysis" item
loadJsonData(json_data) ==
    LET title(n) == CASE n = "road safety" -> "Road Safety" [] OTHER -> n
        item(role_, data, child_items) ==
            [role |-> role_, itemData |-> data, childItems |-> child_items]
        create_indicator_item(indicator) ==
            item("layer",
                 <<indicator["Layer"], "", dict_get(indicator, "Factor Weighting", "0"),
                   indicator>>,
                 <<>>)
        create_factor_item(factor) ==
            LET factor_attributes ==
                    ("id" :> dict_get(factor, "id", ""))
                 @@ ("name" :> dict_get(factor, "name", ""))
                 @@ ("text" :> dict_get(factor, "text", ""))
                 @@ ("required" :> dict_get(factor, "required", "False"))
                 @@ ("default_dimension_weighting" :>
                        dict_get(factor, "default_analysis_weighting", "0.0"))
                 @@ ("Analysis Mode" :> dict_get(factor, "Factor Aggregation", ""))
                 @@ ("Result" :> dict_get(factor, "Result", ""))
                 @@ ("Execution Start Time" :> dict_get(factor, "Execution Start Time", ""))
                 @@ ("Factor Result File" :> dict_get(factor, "Factor Result File", ""))
                 @@ ("Execution End Time" :> dict_get(factor, "Execution End Time", ""))
                layers == dict_get(factor, "layers", <<>>)
            IN  item("factor", <<factor["name"], "", "", factor_attributes>>,
                     [i \in 1..Len(layers) |-> create_indicator_item(layers[i])])
        create_dimension_item(dimension) ==
            LET dimension_attributes ==
                    ("id" :> dict_get(dimension, "id", ""))
                 @@ ("name" :> dict_get(dimension, "name", ""))
                 @@ ("text" :> dict_get(dimension, "text", ""))
                 @@ ("required" :> dict_get(dimension, "required", "False"))
                 @@ ("default_analysis_weighting" :>
                        dict_get(dimension, "default_analysis_weighting", "0.0"))
                 @@ ("Analysis Mode" :> dict_get(dimension, "Factor Aggregation", ""))
                 @@ ("Result" :> dict_get(dimension, "Result", ""))
                 @@ ("Execution Start Time" :> dict_get(dimension, "Execution Start Time", ""))
                 @@ ("Dimension Result File" :> dict_get(dimension, "Dimension Result File", ""))
                 @@ ("Execution End Time" :> dict_get(dimension, "Execution End Time", ""))
                factors == dict_get(dimension, "factors", <<>>)
            IN  item("dimension", <<title(dimension["name"]), "", "", dimension_attributes>>,
                     [i \in 1..Len(factors) |-> create_factor_item(factors[i])])
        analysis_name == dict_get(json_data, "analysis_name", "Analysis")
        analysis_attributes ==
                ("Analysis Name" :> analysis_name)
             @@ ("Description" :> dict_get(json_data, "description", "No Description"))
             @@ ("Working Folder" :> dict_get(json_data, "working_folder", "Not Set"))
        dimensions == dict_get(json_data, "dimensions", <<>>)
    IN  item("analysis", <<analysis_name, "", "", analysis_attributes>>,
             [i \in 1..Len(dimensions) |-> create_dimension_item(dimensions[i])])

\* treeview.py lines 282-324: to_json, recurse_tree from the "Analysis" item
RECURSIVE to_json(_)
to_json(item) ==
    LET lower(n) == CASE n = "Road Safety" -> "road safety" [] OTHER -> n
        child_items == [i \in 1..Len(item.childItems) |-> to_json(item.childItems[i])]
    IN  CASE item.role = "analysis" ->
                ("analysis_name" :> item.itemData[4]["Analysis Name"])
             @@ ("description" :> item.itemData[4]["Description"])
             @@ ("working_folder" :> item.itemData[4]["Working Folder"])
             @@ ("dimensions" :> child_items)
          [] item.role = "dimension" ->
                item.itemData[4]
             @@ ("name" :> lower(item.itemData[1]))
             @@ ("factors" :> child_items)
             @@ ("Analysis Weighting" :> item.itemData[3])
          [] item.role = "factor" ->
                item.itemData[4]
             @@ ("name" :> item.itemData[1])
             @@ ("layers" :> child_items)
             @@ ("Dimension Weighting" :> item.itemData[3])
          [] OTHER ->
                ("Factor Weighting" :> item.itemData[3]) @@ item.itemData[4]

\* configuration documents: each node with and without a free-form key,
\* and with the optional keys the loaders read
Documents ==
    LET free(d) == {d, d @@ ("reviewer note" :> "checked")}
        Layers == UNION {free(d) : d \in {("Layer" :> "street lights"),
                                          ("Layer" :> "crossings") @@ ("Factor Weighting" :> "0.5")}}
        LayerLists == {<<>>} \cup {<<a>> : a \in Layers}
                             \cup {<<a, b>> : a \in Layers, b \in {("Layer" :> "crossings")}}
        Factors == UNION {free(("layers" :> ls) @@ d) :
                            ls \in LayerLists,
                            d \in {("name" :> "lighting"),
                                   ("name" :> "lighting") @@ ("Factor Aggregation" :> "Use Default Index Score"),
                                   ("name" :> "paths") @@ ("default_dimension_weighting" :> "0.3")}}
        FactorLists == {<<f>> : f \in Factors}
                       \cup {<<f, g>> : f \in {("name" :> "paths") @@ ("layers" :> <<>>)},
                                        g \in {("name" :> "lighting") @@ ("layers" :> <<>>)}}
        Dimensions == UNION {free(("factors" :> fs) @@ d) :
                            fs \in FactorLists,
                            d \in {("name" :> "road safety"),
                                   ("name" :> "place") @@ ("Analysis Weighting" :> "0.4")}}
        DimensionLists == {<<d>> : d \in Dimensions}
                          \cup {<<d, e>> : d \in {("name" :> "place") @@ ("factors" :> <<>>)},
                                           e \in {("name" :> "road safety") @@ ("factors" :> <<>>)}}
    IN  UNION {free(("dimensions" :> ds) @@ d) :
                    ds \in DimensionLists,
                    d \in {("analysis_name" :> "women's mobility"),
                           ("description" :> "pilot")}}

InitDoc ==
    /\ ExecIdle
    /\ child_cancel = NoCancel
    /\ pass_log = NoLog
    /\ FilesIdle
    /\ present = {"A"}
    /\ SchedFresh
    /\ ras = NoRasters
    /\ grid = NoGrid
    /\ study = NoStudy
    /\ factory = NoFactory
    /\ job = NoJobs
    /\ invoked = NoneInvoked
    /\ mosaic = NoMosaic
    /\ item_status = NoStatus
    /\ processor = NoProcessor
    /\ progress = NoProgress
    /\ lookup = NoLookup
    /\ doc \in {[stage |-> "document", json_data |-> d] : d \in Documents}

\* JsonTreeModel(json_data): the constructor calls loadJsonData
JsonTreeModel ==
    /\ doc.stage = "document"
    /\ doc' = [stage |-> "loaded", json_data |-> doc.json_data,
               rootItem |-> loadJsonData(doc.json_data)]
    /\ UNCHANGED notDoc

\* model.to_json() on the loaded model
SaveJson ==
    /\ doc.stage = "loaded"
    /\ doc' = [stage |-> "saved", json_data |-> doc.json_data, rootItem |-> doc.rootItem,
               saved |-> to_json(doc.rootItem)]
    /\ UNCHANGED notDoc

NextDoc == JsonTreeModel \/ SaveJson

SpecDoc == InitDoc /\ [][NextDoc]_vars

\* ============================================================== factory
\* SpecFactory : WorkflowFactory.create_workflow, called again and again on
\*               one factory. A call is recorded with the mode it was given
\*               and its outcome: the class it returned, or "ValueError".
SpatialAnalysis == <<"Spatial", "Analysis">>
TemporalAnalysis == <<"Temporal", "Analysis">>
FactoryModes == Modes \cup {SpatialAnalysis, TemporalAnalysis}

\* workflow_factory.py lines 21-44: the outcome of create_workflow, given
\* attributes.get("Analysis Mode") and the counter after line 30
create_workflow(analysis_mode, workflow_completed) ==
    CASE analysis_mode = SpatialAnalysis -> "RasterLayerWorkflow"
      [] analysis_mode = UseDefaultIndexScore -> "DefaultIndexScoreWorkflow"
      [] workflow_completed = 1 -> "ContextualAggregateWorkflow"
      [] analysis_mode = DontUse -> "DontUseWorkflow"
      [] analysis_mode = TemporalAnalysis -> "RasterLayerWorkflow"
      [] OTHER -> "ValueError"

InitFactory ==
    /\ ExecIdle
    /\ child_cancel = NoCancel
    /\ pass_log = NoLog
    /\ FilesIdle
    /\ present = {"A"}
    /\ SchedFresh
    /\ ras = NoRasters
    /\ grid = NoGrid
    /\ study = NoStudy
    /\ doc = NoDoc
    /\ factory = NoFactory
    /\ job = NoJobs
    /\ invoked = NoneInvoked
    /\ mosaic = NoMosaic
    /\ item_status = NoStatus
    /\ processor = NoProcessor
    /\ progress = NoProgress
    /\ lookup = NoLookup

\* one call factory.create_workflow(attributes, feedback)
CreateWorkflow(analysis_mode) ==
    /\ Len(factory.calls) < MaxCalls
    /\ LET completed == IF analysis_mode = UseDefaultIndexScore
                        THEN factory.workflow_completed + 1
                        ELSE factory.workflow_completed
       IN  factory' = [workflow_completed |-> completed,
                       calls |-> Append(factory.calls,
                                    [mode |-> analysis_mode,
                                     outcome |-> create_workflow(analysis_mode, completed)])]
    /\ UNCHANGED notFactory

NextFactory == \E analysis_mode \in FactoryModes : CreateWorkflow(analysis_mode)

SpecFactory == InitFactory /\ [][NextFactory]_vars

\* ================================================================== job
\* SpecJob : the lifecycle signals of WorkflowJob tasks. TreePanel's
\*           queue_workflow_task creates the task through add_workflow and
\*           then connects its slots; the QGIS task manager calls run() on a
\*           worker and finished(result) afterwards, with result the value
\*           run() returned; QgsTask.cancel() only sets the task's flag, and
\*           a task cancelled while still queued is finished(False) without
\*           being run. A signal reaches a slot only if the slot is
\*           connected when the signal is emitted.
Jobs == DOMAIN NoJobs

\* signal.emit(): recorded, and delivered when a slot is connected
emit(j, signal, connected) ==
    [j EXCEPT !.emitted = Append(@, signal),
              !.delivered = IF connected THEN Append(@, signal) ELSE @]

\* tree_panel.py lines 979-999: add_workflow constructs the WorkflowJob,
\* whose __init__ emits job_queued (workflow_job.py line 53); the four
\* connect calls follow, on the task that add_workflow returned
QueueJob(j) ==
    /\ job[j].status = "none"
    /\ job' = [job EXCEPT ![j] = [emit(@, <<"job_queued">>, FALSE) EXCEPT !.status = "queued"]]
    /\ UNCHANGED notJob

\* workflow_job.py lines 62-83: run() up to the call of execute()
RunJob(j) ==
    /\ job[j].status = "queued"
    /\ job' = [job EXCEPT ![j] = [emit(@, <<"job_started">>, TRUE) EXCEPT !.status = "running"]]
    /\ UNCHANGED notJob

\* workflow_base.py lines 266-271: the per-tile poll of the running workflow
\* reads isCanceled() of the QgsFeedback the job created for it
\* (workflow_job.py lines 42-48); recorded with the task's own flag
PollFeedback(j) ==
    /\ job[j].status = "running"
    /\ Len(job[j].polls) < MaxTiles
    /\ job' = [job EXCEPT ![j].polls =
                    Append(@, [task_canceled |-> job[j].canceled,
                               isCanceled |-> job[j].feedback_canceled])]
    /\ UNCHANGED notJob

\* lines 84-110: execute() returns a value or raises, run() returns
ExecuteReturns(j, outcome) ==
    /\ job[j].status = "running"
    /\ job' = [job EXCEPT ![j].status = "returned", ![j].returned = outcome]
    /\ UNCHANGED notJob

\* QgsTask.cancel(), which WorkflowJob does not override: the flag of the
\* task is set, the QgsFeedback of the task's workflow is not touched
CancelJob(j) ==
    /\ job[j].status \in {"queued", "running", "returned"}
    /\ ~job[j].canceled
    /\ job' = [job EXCEPT ![j] =
                 IF @.status = "queued"
                 THEN [emit(@, <<"job_finished", FALSE>>, TRUE)
                          EXCEPT !.status = "done", !.canceled = TRUE]
                 ELSE [@ EXCEPT !.canceled = TRUE]]
    /\ UNCHANGED notJob

\* lines 124-135: finished(success) emits job_finished(success)
FinishedJob(j) ==
    /\ job[j].status = "returned"
    /\ job' = [job EXCEPT ![j] =
                 [emit(@, <<"job_finished", job[j].returned = "True">>, TRUE)
                    EXCEPT !.status = "done"]]
    /\ UNCHANGED notJob

InitJob ==
    /\ ExecIdle
    /\ child_cancel = NoCancel
    /\ pass_log = NoLog
    /\ FilesIdle
    /\ present = {"A"}
    /\ SchedFresh
    /\ ras = NoRasters
    /\ grid = NoGrid
    /\ study = NoStudy
    /\ doc = NoDoc
    /\ factory = NoFactory
    /\ job = NoJobs
    /\ invoked = NoneInvoked
    /\ mosaic = NoMosaic
    /\ item_status = NoStatus
    /\ processor = NoProcessor
    /\ progress = NoProgress
    /\ lookup = NoLookup

NextJob ==
    \E j \in Jobs :
        \/ QueueJob(j)
        \/ RunJob(j)
        \/ PollFeedback(j)
        \/ \E outcome \in {"True", "False", "raise"} : ExecuteReturns(j, outcome)
        \/ CancelJob(j)
        \/ FinishedJob(j)

SpecJob == InitJob /\ [][NextJob]_vars

\* =============================================================== mosaic
\* SpecMosaic : the rasters of one node with two tiles, on one row of
\*              pixels. Tile k has a clip geometry (a set of columns) and a
\*              produced raster over its bounding box; execute() masks the
\*              tiles in index order and combines the masked rasters.
MosaicColumns == {1, 2, 3}

\* what the production step of a tile can return: a raster over an interval
\* of the row, each pixel the tile's value or nodata, and a clip geometry
\* inside that interval
TileInputs(value) ==
    UNION {{[clip |-> c, produced |-> Raster(e[1] - 1, d, NoData)] :
                d \in [1..(e[2] - e[1] + 1) -> {value, NoData}],
                c \in SUBSET (e[1]..e[2]) \ {{}}} :
           e \in {x \in MosaicColumns \X MosaicColumns : x[1] <= x[2]}}

\* the value of a raster at a column of the row, nodata outside its extent
ValueAt(r, col) == IF (col - r.off) \in 1..Cols(r) THEN r.data[col - r.off] ELSE NoData

\* a mask that keeps the pixels outside the clip geometry
mask_raster_without_cutline(raster, clip) == raster

\* workflow_base.py lines 606-617: gdal.Warp with the clip geometry as the
\* cutline, cropToCutline=False, dstNodata=-9999: the extent of the source,
\* its pixels inside the cutline, nodata outside
mask_raster(raster, clip) ==
    Raster(raster.off,
           [x \in 1..Cols(raster) |->
                IF (raster.off + x) \in clip /\ raster.data[x] # raster.nodata
                    THEN raster.data[x] ELSE NoData],
           NoData)

\* utilities.py lines 206-246: gdal:buildvirtualraster over checked_rasters,
\* SEPARATE False: the union of the extents; a pixel shows the last listed
\* source that has data there
buildvirtualraster(rasters) ==
    LET ulx == union_ulx(rasters)
    IN  Raster(ulx,
               [x \in 1..(union_lrx(rasters) - ulx) |->
                    LET with_data == {k \in 1..Len(rasters) :
                                        ValueAt(rasters[k], ulx + x) # rasters[k].nodata}
                    IN  IF with_data = {} THEN NoData
                        ELSE ValueAt(rasters[SetMax(with_data)], ulx + x)],
               NoData)

InitMosaic ==
    /\ ExecIdle
    /\ child_cancel = NoCancel
    /\ pass_log = NoLog
    /\ FilesIdle
    /\ present = {"A"}
    /\ SchedFresh
    /\ ras = NoRasters
    /\ grid = NoGrid
    /\ study = NoStudy
    /\ doc = NoDoc
    /\ factory = NoFactory
    /\ job = NoJobs
    /\ invoked = NoneInvoked
    /\ item_status = NoStatus
    /\ processor = NoProcessor
    /\ progress = NoProgress
    /\ lookup = NoLookup
    /\ mosaic \in {[stage |-> "tiles", tiles |-> <<t0, t1>>, output_rasters |-> <<>>] :
                        t0 \in TileInputs(3), t1 \in TileInputs(5)}

\* workflow_base.py lines 311-317: the mask of the next tile
MaskTile ==
    /\ mosaic.stage = "tiles"
    /\ Len(mosaic.output_rasters) < Len(mosaic.tiles)
    /\ LET t == mosaic.tiles[Len(mosaic.output_rasters) + 1]
       IN  mosaic' = [mosaic EXCEPT !.output_rasters =
                            Append(@, mask_raster(t.produced, t.clip))]
    /\ UNCHANGED notMosaic

\* lines 319-320: the VRT of the masked rasters, after the last tile
CombineToVrt ==
    /\ mosaic.stage = "tiles"
    /\ Len(mosaic.output_rasters) = Len(mosaic.tiles)
    /\ mosaic' = [stage |-> "mosaic", tiles |-> mosaic.tiles,
                  output_rasters |-> mosaic.output_rasters,
                  vrt |-> buildvirtualraster(mosaic.output_rasters)]
    /\ UNCHANGED notMosaic

NextMosaic == MaskTile \/ CombineToVrt

SpecMosaic == InitMosaic /\ [][NextMosaic]_vars

\* =============================================================== status
\* SpecStatus : JsonTreeItem.updateStatus on an item with any result text,
\*              analysis mode and required flag.
InitStatus ==
    /\ ExecIdle
    /\ child_cancel = NoCancel
    /\ pass_log = NoLog
    /\ FilesIdle
    /\ present = {"A"}
    /\ SchedFresh
    /\ ras = NoRasters
    /\ grid = NoGrid
    /\ study = NoStudy
    /\ doc = NoDoc
    /\ factory = NoFactory
    /\ job = NoJobs
    /\ invoked = NoneInvoked
    /\ mosaic = NoMosaic
    /\ processor = NoProcessor
    /\ progress = NoProgress
    /\ lookup = NoLookup
    /\ item_status \in {[stage |-> "item", data |-> d] :
                            d \in [analysis_mode : FactoryModes,
                                   indicator_required : BOOLEAN,
                                   result : {Absent, NoText, NotRunText, CompletedText,
                                             ErrorText, FailedText}]}

\* json_tree_item.py lines 206-224: updateStatus() calls getStatus()
updateStatus ==
    /\ item_status.stage = "item"
    /\ item_status' = [stage |-> "status", data |-> item_status.data,
                       status |-> getStatus(item_status.data)]
    /\ UNCHANGED notStatus

SpecStatus == InitStatus /\ [][updateStatus]_vars

\* ============================================================ processor
\* SpecProcessor : FeaturesPerCellProcessor.process_areas over a study-area
\*                 store of 0..MaxAreas areas.
\* a local name the loop has not bound yet
Unbound == <<>>
FeatureCounts == 0 .. 2

\* AreaIterator over a store of n areas: the areas in insertion order
AreaIterator(n) == [i \in 1 .. n |-> i - 1]

\* features_per_cell_processor.py lines 493-514
assign_values_to_grid(intersecting_features) ==
    IF intersecting_features = 1 THEN 3
    ELSE IF intersecting_features > 1 THEN 5
    ELSE PyNone

\* features_per_cell_processor.py lines 575-658: the rasters 0..num_rasters-1
\* that exist and are valid, in index order, are the INPUT of the VRT whose
\* path is returned; None is returned and no VRT built when there is none
features_combine_rasters_to_vrt(num_rasters, files) ==
    LET raster_files == SelectSeq([i \in 1 .. num_rasters |-> i - 1],
                                  LAMBDA i : i \in files)
    IN  IF raster_files = <<>> THEN [returns |-> PyNone, INPUT |-> <<>>]
        ELSE [returns |-> "features_per_cell_output_combined.vrt",
              INPUT |-> raster_files]

InitProcessor ==
    /\ ExecIdle
    /\ child_cancel = NoCancel
    /\ pass_log = NoLog
    /\ FilesIdle
    /\ present = {"A"}
    /\ SchedFresh
    /\ ras = NoRasters
    /\ grid = NoGrid
    /\ study = NoStudy
    /\ doc = NoDoc
    /\ factory = NoFactory
    /\ job = NoJobs
    /\ invoked = NoneInvoked
    /\ mosaic = NoMosaic
    /\ item_status = NoStatus
    /\ progress = NoProgress
    /\ lookup = NoLookup
    /\ processor \in {[stage |-> "iterating", n |-> n, index |-> Unbound,
                       handled |-> <<>>, values |-> <<>>, files |-> {},
                       result |-> PyNone, INPUT |-> <<>>] : n \in 0 .. MaxAreas}

\* features_per_cell_processor.py lines 138-168: one pass of the for loop.
\* enumerate binds index; _rasterize_grid writes output_{index}.tif (line 539),
\* which is afterwards found valid or not (line 591).
ProcessArea(intersecting_features, valid) ==
    /\ processor.stage = "iterating"
    /\ Len(processor.handled) < processor.n
    /\ LET idx == Len(processor.handled)
       IN  processor' = [processor EXCEPT
               !.index = <<idx>>,
               !.handled = Append(@, AreaIterator(processor.n)[idx + 1]),
               !.values = Append(@, assign_values_to_grid(intersecting_features)),
               !.files = IF valid THEN @ \cup {idx} ELSE @]
    /\ UNCHANGED notProcessor

\* features_per_cell_processor.py lines 170-172: index + 1 after the loop;
\* a loop that never ran leaves index unbound (UnboundLocalError)
ProcessAreasReturn ==
    /\ processor.stage = "iterating"
    /\ Len(processor.handled) = processor.n
    /\ processor' = IF processor.index = Unbound
                    THEN [processor EXCEPT !.stage = "raised"]
                    ELSE LET vrt == features_combine_rasters_to_vrt(
                                        processor.index[1] + 1, processor.files)
                         IN  [processor EXCEPT !.stage = "returned",
                                               !.result = vrt.returns,
                                               !.INPUT = vrt.INPUT]
    /\ UNCHANGED notProcessor

NextProcessor ==
    \/ \E c \in FeatureCounts, valid \in BOOLEAN : ProcessArea(c, valid)
    \/ ProcessAreasReturn

SpecProcessor == InitProcessor /\ [][NextProcessor]_vars

\* =============================================================== lookup
\* SpecLookup : the path of a child's masked raster for one tile, as the
\*              child's workflow writes it and as its aggregating parent
\*              looks it up. Ids are strings over a small alphabet.
Alphabet == {"a", "B", " "}
Ids == UNION {[1 .. n -> Alphabet] : n \in 1 .. MaxIdLen}

\* str.lower()
lower(text) == [i \in 1 .. Len(text) |-> IF text[i] = "B" THEN "b" ELSE text[i]]
\* str.replace(" ", "_")
replace_spaces(text) == [i \in 1 .. Len(text) |-> IF text[i] = " " THEN "_" ELSE text[i]]

\* A path is a sequence of components, each a sequence of characters; the
\* first component of an absolute path is the root.
\* os.path.join: an absolute second path discards the first
path_join(a, b) == IF b # <<>> /\ b[1] = <<"/">> THEN b ELSE a \o b
\* os.path.dirname
dirname(path) == SubSeq(path, 1, Len(path) - 1)

\* the working directory the user chose, an absolute path
working_directory == <<<<"/">>, <<"working_directory">>>>

\* the decimal text of a tile index in an f-string
str(i) == <<"0", "1", "2", "3">>[i + 1]

\* JsonTreeItem.getPaths, lines 234-258, of an indicator and of its factor
indicator_paths(dimension_id, factor_id, id) ==
    <<replace_spaces(lower(dimension_id)), replace_spaces(lower(factor_id)),
      replace_spaces(lower(id))>>
factor_paths(dimension_id, factor_id) ==
    <<replace_spaces(lower(dimension_id)), replace_spaces(lower(factor_id))>>

\* workflow_base.py line 112
layer_id(id) == replace_spaces(lower(id))

\* workflow_base.py lines 577-578: the masked raster of tile idx
mask_raster_output_path(directory, id, idx) ==
    path_join(directory, <<layer_id(id) \o <<"_masked_", str(idx), ".tif">>>>)

\* workflow_base.py lines 116 and 656-659: the result file of a completed
\* node, named after its output_filename attribute
combined_vrt_path(directory, output_filename) ==
    path_join(directory, <<output_filename \o <<"_combined.vrt">>>>)

\* aggregation_workflow_base.py lines 346 and 366-369: where the parent, whose
\* directory is given, looks for the child's masked raster of tile idx
get_raster_dict_path(directory, result_file, id, idx) ==
    path_join(path_join(directory, dirname(result_file)),
              <<lower(id) \o <<"_masked_", str(idx), ".tif">>>>)

InitLookup ==
    /\ ExecIdle
    /\ child_cancel = NoCancel
    /\ pass_log = NoLog
    /\ FilesIdle
    /\ present = {"A"}
    /\ SchedFresh
    /\ ras = NoRasters
    /\ grid = NoGrid
    /\ study = NoStudy
    /\ doc = NoDoc
    /\ factory = NoFactory
    /\ job = NoJobs
    /\ invoked = NoneInvoked
    /\ mosaic = NoMosaic
    /\ item_status = NoStatus
    /\ processor = NoProcessor
    /\ progress = NoProgress
    /\ lookup \in {[stage |-> "queued", id |-> id, factor_id |-> f, index |-> i,
                    written |-> <<>>, result_file |-> <<>>, looked_up |-> <<>>] :
                        id \in Ids, f \in {<<"a">>, <<"B", " ">>}, i \in 0 .. MaxTiles - 1}

\* the child's workflow masks tile index and completes
ChildWritesMaskedRaster ==
    /\ lookup.stage = "queued"
    /\ LET directory == path_join(working_directory,
                                  indicator_paths(<<"a">>, lookup.factor_id, lookup.id))
       IN  lookup' = [lookup EXCEPT
               !.stage = "completed",
               !.written = mask_raster_output_path(directory, lookup.id, lookup.index),
               !.result_file = combined_vrt_path(directory, <<"output_filename">>)]
    /\ UNCHANGED notLookup

\* the parent's get_raster_dict looks for the completed child's raster
ParentLooksUpMaskedRaster ==
    /\ lookup.stage = "completed"
    /\ LET directory == path_join(working_directory,
                                  factor_paths(<<"a">>, lookup.factor_id))
       IN  lookup' = [lookup EXCEPT
               !.stage = "looked up",
               !.looked_up = get_raster_dict_path(directory, lookup.result_file,
                                                  lookup.id, lookup.index)]
    /\ UNCHANGED notLookup

NextLookup ==
    \/ ChildWritesMaskedRaster
    \/ ParentLooksUpMaskedRaster

SpecLookup == InitLookup /\ [][NextLookup]_vars

\* =============================================================== claims
\* The node being executed has a configured analysis mode.
NodeData == [result |-> attrs.result, analysis_mode |-> UseDefaultIndexScore,
             indicator_required |-> FALSE]
NodeStatus == getStatus(NodeData)

StepsOfTile(i) == {steps[k][1] : k \in {j \in 1..Len(steps) : steps[j][2] = i}}

\* C1: once the per-tile poll has seen the cancellation at tile k, no subset,
\* production, mask or mosaic step has been started for tile k or a later
\* tile, and execute() has returned False.
C1_CancelStopsTiles ==
    polled_canceled # -1 =>
        /\ \A k \in 1..Len(steps) : steps[k][2] < polled_canceled
        /\ pc = "done"
        /\ ret = "False"

\* reached: the poll of tile 1 saw the cancellation after tile 0 was processed
C1_Witness ==
    /\ polled_canceled = 1
    /\ StepsOfTile(0) = {"subset", "produce", "mask"}
    /\ ret = "False"

\* C2: an execute() whose poll saw the cancellation ends without an exception
\* raised inside it, without the Error status and without an error text or an
\* error-artifact path recorded on the node.
C2_CanceledIsNotError ==
    (pc = "done" /\ polled_canceled # -1) =>
        /\ raised = ""
        /\ NodeStatus # "x"
        /\ ~Contains(attrs.result, <<"Error">>)
        /\ attrs.error = ""
        /\ attrs.error_file # "error.txt"

\* C5: when a subset, production, mask or mosaic step raises at tile k, no
\* step of a later tile is started, execute() returns False and the node ends
\* with status Error, an empty result_file, an error text and the path of the
\* error artifact.
C5_RaiseAbortsNode ==
    raised \in {"subset", "produce", "mask", "mosaic"} =>
        /\ pc = "done"
        /\ ret = "False"
        /\ \A k \in 1..Len(steps) : steps[k][2] <= index
        /\ NodeStatus = "x"
        /\ Contains(attrs.result, <<"Error">>)
        /\ attrs.result_file = ""
        /\ attrs.error # ""
        /\ attrs.error_file = "error.txt"

\* reached: the mask of tile 1 raised in a second run of a node whose first
\* run had completed
C5_Witness ==
    /\ raised = "mask"
    /\ index = 1
    /\ index < nTiles
    /\ runs = 2
    /\ attrs.result_file = ""

\* C6: whenever execute() has returned True the node is Completed and its
\* result_file is the non-empty path of the mosaic built from the masked
\* rasters of all tiles.
C6_TrueMeansMosaic ==
    ret = "True" =>
        /\ NodeStatus = "tick"
        /\ Truthy(attrs.result_file)
        /\ attrs.result_file = "wf_combined.vrt"
        /\ Len(vrt_inputs) = nTiles

\* C7: at every point the node's result_file is populated only if the
\* current run has processed all tiles and built the mosaic, and then the
\* node is Completed.
C7_ResultFileOnlyWhenCompleted ==
    Truthy(attrs.result_file) =>
        /\ pc = "done"
        /\ ret = "True"
        /\ NodeStatus = "tick"

\* The words of the claims about children, read off the child's attributes.
ChildCompleted(c) == getStatus(c) = "tick"
ChildExcluded(c) == getStatus(c) = "Excluded from analysis"
ChildDoNotUse(c) == AttrGet(c.analysis_mode, DoNotUse) \in {DoNotUse, DontUse}
\* the state right after the aggregate step of tile `index`
AfterAggregate == kind = "aggregate" /\ (pc = "mask" \/ raised = "produce")

\* C8: when the aggregate step of a tile meets a child that is neither
\* Completed, nor Excluded, nor set to do-not-use, it raises before any
\* merge, weighted-sum or mask step of that tile, and the node ends with
\* status Error.
C8_MissingChildRaisesFirst ==
    (AfterAggregate /\ \E g \in Guids : /\ ~ChildCompleted(children[g])
                                        /\ ~ChildExcluded(children[g])
                                        /\ ~ChildDoNotUse(children[g])) =>
        /\ raised = "produce"
        /\ last_dict.raised
        /\ StepsOfTile(index) \cap {"merge", "weighted_sum", "mask"} = {}
        /\ pc = "done"
        /\ ret = "False"
        /\ NodeStatus = "x"

\* reached: the second child is not run and has a stale result file, the
\* first is set to do-not-use
C8_Witness ==
    /\ AfterAggregate
    /\ children["c1"].analysis_mode = DoNotUse
    /\ children["c2"].analysis_mode = UseDefaultIndexScore
    /\ children["c2"].result = NotRunText
    /\ children["c2"].result_file # ""
    /\ last_dict.raised /\ last_dict.at = 2
    /\ NodeStatus = "x"

\* C9: a child set to do-not-use, or Excluded, is not in the weighted input
\* set and is not the child at which the lookup raises.
C9_ExcludedChildIsSkipped ==
    AfterAggregate =>
        \A k \in 1..Len(guids) :
            (ChildDoNotUse(children[guids[k]]) \/ ChildExcluded(children[guids[k]])) =>
                /\ ~(last_dict.raised /\ last_dict.at = k)
                /\ \A f \in last_dict.files : f.child # guids[k]

Rank(r) ==
    CASE r = "indicator" -> 1
      [] r = "factor" -> 2
      [] r = "dimension" -> 3
      [] r = "analysis" -> 4
AllPhases == <<"indicators", "factors", "dimensions", "analysis">>
IsPrefix(s, t) == Len(s) <= Len(t) /\ SubSeq(t, 1, Len(s)) = s

\* C3: while a task runs, every task queued in the pass for a node of a lower
\* level has finished, nothing of a lower level is still waiting, and in a
\* run-all pass every child of the running node has been attempted.
C3_PhaseBarrier ==
    \A n \in active :
        /\ \A m \in queued_in_pass :
                Rank(role[m]) < Rank(role[n]) => m \in finished_in_pass
        /\ \A k \in 1..Len(job_queue) : Rank(role[job_queue[k]]) >= Rank(role[n])
        /\ pass_kind = "all" =>
                \A c \in present : parentItem[c] = n => c \in finished_in_pass

\* reached: the factor runs after both indicators finished, one of them failed
C3_Witness ==
    /\ active = {"F1"}
    /\ {"I1", "I2"} \subseteq finished_in_pass
    /\ items["I1"].result = ErrorText
    /\ items["I2"].result = CompletedText

C11_CanceledChildIsMissing ==
    AfterAggregate =>
        \A k \in 1..Len(guids) :
            child_cancel[guids[k]] # "no" =>
                /\ \A f \in last_dict.files : f.child # guids[k]
                /\ (~ChildDoNotUse(children[guids[k]]) /\ ~ChildExcluded(children[guids[k]])) =>
                        /\ raised = "produce"
                        /\ last_dict.raised
                        /\ NodeStatus = "x"

\* reached: the second child was canceled at its poll and is in use, and the
\* parent's aggregation has raised at it
C11_Witness ==
    /\ AfterAggregate
    /\ child_cancel["c2"] = "polled"
    /\ children["c2"].analysis_mode = UseDefaultIndexScore
    /\ Contains(children["c2"].result, <<"Error">>)
    /\ last_dict.raised /\ last_dict.at = 2
    /\ raised = "produce"

TimesQueued(n) == Cardinality({k \in 1..Len(pass_log.queued) : pass_log.queued[k].node = n})
PassOver == ~ui_busy /\ workflow_queue = <<>>
NodeExcluded(n) == getStatus(items[n]) = "Excluded from analysis"

\* C12: in a run-incomplete pass no task is queued for a node that has a
\* result file, every task is queued in the phase of its node's role and at
\* most once, and when the pass is over every node that had no result file
\* and is not Excluded has been queued exactly once.
C12_RunIncompleteQueuesTheEmpty ==
    pass_kind = "incomplete" =>
        /\ \A k \in 1..Len(pass_log.queued) :
                /\ ~pass_log.queued[k].had_file
                /\ pass_log.queued[k].node \notin pass_log.populated
                /\ role_of_type(pass_log.queued[k].phase) = role[pass_log.queued[k].node]
        /\ \A n \in Nodes : TimesQueued(n) <= 1
        /\ PassOver =>
                \A n \in present :
                    (n \notin pass_log.populated /\ ~NodeExcluded(n)) => TimesQueued(n) = 1

\* reached: a finished run-incomplete pass after a pass in which one indicator
\* failed: the indicator alone was queued again
C12_Witness ==
    /\ pass_kind = "incomplete"
    /\ passes = 2
    /\ PassOver
    /\ present = Nodes
    /\ pass_log.populated = Nodes \ {"I1"}
    /\ TimesQueued("I1") = 1
    /\ Len(pass_log.queued) = 1

\* C13: in a run-all pass every task is queued for a node whose result is
\* Not Run and whose result file is blank, a node keeps that reset state
\* until its own task has run, every task is queued in the phase of its
\* node's role and at most once, and when the pass is over every node that is
\* not Excluded has been queued exactly once.
C13_RunAllResetsThenQueuesAll ==
    pass_kind = "all" =>
        /\ pass_log.populated = {}
        /\ \A k \in 1..Len(pass_log.queued) :
                /\ ~pass_log.queued[k].had_file
                /\ pass_log.queued[k].result = NotRunText
                /\ role_of_type(pass_log.queued[k].phase) = role[pass_log.queued[k].node]
        /\ \A n \in Nodes :
                /\ TimesQueued(n) <= 1
                /\ (n \notin finished_in_pass /\ n \notin active) =>
                        items[n].result = NotRunText /\ items[n].result_file = ""
        /\ PassOver => \A n \in present : ~NodeExcluded(n) => TimesQueued(n) = 1

\* reached: a second pass, run-all over the whole tree, is over and has
\* queued all six nodes, each of which the first pass had run
C13_Witness ==
    /\ pass_kind = "all"
    /\ passes = 2
    /\ PassOver
    /\ present = Nodes
    /\ Len(pass_log.queued) = 6
    /\ \A n \in Nodes : TimesQueued(n) = 1
    /\ finished_in_pass = Nodes

InQueue(n) == \E k \in 1..Len(job_queue) : job_queue[k] = n

\* C14: the attributes of a node whose task is queued or running change only
\* in the step in which its running task ends.
C14_SingleWriter ==
    [][\A n \in Nodes :
            (InQueue(n) \/ n \in active) =>
                \/ items'[n] = items[n]
                \/ n \in active /\ n \notin active']_vars

\* C15: every file written lies in the directory of the node whose workflow
\* wrote it, and no file is written by the workflows of two different nodes.
C15_WritesStayInOwnDirectory ==
    /\ \A w \in written : w.file.dir = workflow_directory(w.node)
    /\ \A w1, w2 \in written : w1.node # w2.node => w1.file # w2.file

\* the value a raster has at column x of the grid; outside its extent it has
\* no data
PixelAt(r, x) ==
    IF (x - r.off) \in 1..Cols(r) THEN r.data[x - r.off] ELSE r.nodata
HasData(r, x) == PixelAt(r, x) # r.nodata
GridColumns == 1..MaxWidth

\* C16: in the aggregated tile a pixel where both children have data holds
\* w1*v1 + w2*v2, and a pixel where exactly one child has data is not nodata
\* and is zero only if that child's value is zero.
C16_WeightedSum ==
    ras.stage = "done" =>
        \A x \in GridColumns :
            LET c1 == ras.input_files[1]
                c2 == ras.input_files[2]
                out == PixelAt(ras.aggregation_output, x)
            IN  /\ (HasData(c1, x) /\ HasData(c2, x)) =>
                        out = ras.weights[1] * PixelAt(c1, x) + ras.weights[2] * PixelAt(c2, x)
                /\ (HasData(c1, x) /\ ~HasData(c2, x)) =>
                        out # NoData /\ (out = 0 => PixelAt(c1, x) = 0)
                /\ (~HasData(c1, x) /\ HasData(c2, x)) =>
                        out # NoData /\ (out = 0 => PixelAt(c2, x) = 0)

\* reached: an aggregated tile with a pixel where both children have a
\* positive value and a pixel where only the first child has one
C16_Witness ==
    /\ ras.stage = "done"
    /\ \E x \in GridColumns :
            /\ PixelAt(ras.input_files[1], x) = 2
            /\ PixelAt(ras.input_files[2], x) = 2
            /\ PixelAt(ras.aggregation_output, x) = 200
    /\ \E x \in GridColumns :
            /\ PixelAt(ras.input_files[1], x) = 2
            /\ ~HasData(ras.input_files[2], x)
            /\ PixelAt(ras.aggregation_output, x) = 2 * weight_of["c1"]

\* C17: in the aggregated tile a pixel at which no child has data is nodata.
C17_NoChildGivesNoData ==
    ras.stage = "done" =>
        \A x \in GridColumns :
            (~HasData(ras.input_files[1], x) /\ ~HasData(ras.input_files[2], x)) =>
                PixelAt(ras.aggregation_output, x) = NoData

\* reached: an aggregated tile with a pixel inside both children's extents
\* where neither has data, next to a pixel with data
C17_Witness ==
    /\ ras.stage = "done"
    /\ \E x \in GridColumns :
            /\ (x - ras.input_files[1].off) \in 1..Cols(ras.input_files[1])
            /\ (x - ras.input_files[2].off) \in 1..Cols(ras.input_files[2])
            /\ ~HasData(ras.input_files[1], x)
            /\ ~HasData(ras.input_files[2], x)
            /\ PixelAt(ras.aggregation_output, x) = NoData
    /\ \E x \in GridColumns : PixelAt(ras.aggregation_output, x) = 2 * weight_of["c2"]

\* the last input, in list order, that has data at column x; 0 if none has
RECURSIVE LastWithData(_, _, _)
LastWithData(input_files, k, x) ==
    IF k = 0 THEN 0
    ELSE IF HasData(input_files[k], x) THEN k
    ELSE LastWithData(input_files, k - 1, x)

\* C18: every pixel of the merged raster holds the value of the last input
\* that has data there and is nodata exactly when no input has data there,
\* and the merged raster covers the union of the inputs' extents.
C18_MergeLastWriteWins ==
    ras.stage \in {"merged", "masked", "final", "done"} =>
        LET out == ras.merged_output
            last(x) == LastWithData(ras.input_files, Len(ras.input_files), x)
        IN  /\ \A x \in GridColumns :
                    /\ last(x) # 0 => PixelAt(out, x) = PixelAt(ras.input_files[last(x)], x)
                    /\ last(x) = 0 <=> PixelAt(out, x) = NoData
            /\ \A x \in GridColumns :
                    (x - out.off) \in 1..Cols(out) <=>
                        (union_ulx(ras.input_files) < x /\ x <= union_lrx(ras.input_files))

\* reached: two overlapping inputs with different values at one pixel, a
\* pixel covered by the first input only, and the second input's value won
C18_Witness ==
    /\ ras.stage = "merged"
    /\ \E x \in GridColumns :
            /\ PixelAt(ras.input_files[1], x) = 0
            /\ PixelAt(ras.input_files[2], x) = 2
            /\ PixelAt(ras.merged_output, x) = 2
    /\ \E x \in GridColumns :
            /\ PixelAt(ras.input_files[1], x) = 2
            /\ (x - ras.input_files[2].off) \notin 1..Cols(ras.input_files[2])
            /\ PixelAt(ras.merged_output, x) = 2

OriginX == study_area_origin(grid.layer_bbox.xMinimum, grid.cell_size_m)
OriginY == study_area_origin(grid.layer_bbox.yMinimum, grid.cell_size_m)
OnGrid(origin, v) == (v - origin) % grid.cell_size_m = 0
FloorCells(origin, v) == (v - origin) \div grid.cell_size_m
CeilCells(origin, v) == 0 - ((origin - v) \div grid.cell_size_m)

\* C19: the four edges of the aligned box lie a whole number of cells from
\* the grid origin, and the aligned box contains the bbox with a margin of at
\* least one cell on every side.
C19_AlignedAndPadded ==
    grid.stage = "aligned" =>
        /\ OnGrid(OriginX, grid.aligned.xMinimum)
        /\ OnGrid(OriginX, grid.aligned.xMaximum)
        /\ OnGrid(OriginY, grid.aligned.yMinimum)
        /\ OnGrid(OriginY, grid.aligned.yMaximum)
        /\ grid.aligned.xMinimum <= grid.bbox.xMinimum - grid.cell_size_m
        /\ grid.aligned.yMinimum <= grid.bbox.yMinimum - grid.cell_size_m
        /\ grid.aligned.xMaximum >= grid.bbox.xMaximum + grid.cell_size_m
        /\ grid.aligned.yMaximum >= grid.bbox.yMaximum + grid.cell_size_m

\* reached: a bbox left of the grid origin whose edges lie off the grid
\* lines, with a cell of three units
C19_Witness ==
    /\ grid.stage = "aligned"
    /\ grid.cell_size_m = 3
    /\ grid.bbox.xMinimum < OriginX
    /\ ~OnGrid(OriginX, grid.bbox.xMinimum)
    /\ ~OnGrid(OriginX, grid.bbox.xMaximum)
    /\ ~OnGrid(OriginY, grid.bbox.yMaximum)
    /\ grid.aligned.xMaximum - grid.aligned.xMinimum >= 3 * grid.cell_size_m

\* C20: the minimum edges are origin + (floor - 1) cells and the maximum
\* edges are origin + (ceil + 1) cells, whether or not a bbox edge lies on a
\* grid line.
C20_ExactlyOneCellOfPadding ==
    grid.stage = "aligned" =>
        /\ grid.aligned.xMinimum =
                OriginX + (FloorCells(OriginX, grid.bbox.xMinimum) - 1) * grid.cell_size_m
        /\ grid.aligned.yMinimum =
                OriginY + (FloorCells(OriginY, grid.bbox.yMinimum) - 1) * grid.cell_size_m
        /\ grid.aligned.xMaximum =
                OriginX + (CeilCells(OriginX, grid.bbox.xMaximum) + 1) * grid.cell_size_m
        /\ grid.aligned.yMaximum =
                OriginY + (CeilCells(OriginY, grid.bbox.yMaximum) + 1) * grid.cell_size_m

WholeCells(d) == d % study.cell_size_m = 0

\* C21: every grid_aligned_bbox call of one study area, the constructor's
\* and each per-part call, uses the same origin.
C21_SameOriginInEveryCall ==
    \A a \in study.calls, b \in study.calls : a.origin = b.origin

\* C21, amended: the origins of any two calls of one study area differ by a
\* whole number of cells, all per-part calls use one origin, and the
\* corresponding edges of any two aligned boxes differ by a whole number of
\* cells.
C21_OriginsAndEdgesAgreeModuloCell ==
    \A a \in study.calls, b \in study.calls :
        /\ WholeCells(a.origin[1] - b.origin[1])
        /\ WholeCells(a.origin[2] - b.origin[2])
        /\ (a.by = "part" /\ b.by = "part") => a.origin = b.origin
        /\ WholeCells(a.box.xMinimum - b.box.xMinimum)
        /\ WholeCells(a.box.xMaximum - b.box.xMaximum)
        /\ WholeCells(a.box.yMinimum - b.box.yMinimum)
        /\ WholeCells(a.box.yMaximum - b.box.yMaximum)

\* reached: the constructor's call and two per-part calls with different
\* boxes, with a cell of three units and a layer in another CRS
C21_Witness ==
    /\ study.stage = "ready"
    /\ study.cell_size_m = 3
    /\ study.crs_shift # 0
    /\ \E a \in study.calls, b \in study.calls, c \in study.calls :
        /\ a.by = "__init__" /\ b.by = "part" /\ c.by = "part"
        /\ b.box.xMinimum # c.box.xMinimum
        /\ a.origin # b.origin

\* C22: grid alignment raises exactly when the cell size is zero or
\* negative.
C22_RaisesIffCellSizeNotPositive ==
    grid.stage \in {"aligned", "raised"} =>
        (grid.stage = "raised" <=> grid.cell_size_m <= 0)

ChildKeys == {"dimensions", "factors", "layers"}

\* every key of the loaded node is in the saved node with the same value,
\* and the children are as many, in the same order, and preserved likewise
RECURSIVE Preserved(_, _)
Preserved(loaded, saved) ==
    /\ \A k \in DOMAIN loaded \ ChildKeys : k \in DOMAIN saved /\ saved[k] = loaded[k]
    /\ \A k \in DOMAIN loaded \cap ChildKeys :
        /\ k \in DOMAIN saved
        /\ Len(saved[k]) = Len(loaded[k])
        /\ \A i \in 1..Len(loaded[k]) : Preserved(loaded[k][i], saved[k][i])

\* C23: load followed by to_json reproduces every key present on load with
\* its value, on the analysis node and on every dimension, factor and
\* indicator, and keeps the number and the order of the children.
C23_RoundTripKeepsEveryKey ==
    doc.stage = "saved" => Preserved(doc.json_data, doc.saved)

MappedModes == {SpatialAnalysis, UseDefaultIndexScore, DontUse, TemporalAnalysis}

\* C24: every create_workflow call with an analysis mode that has no mapped
\* workflow ends in the unknown-mode error, whatever was created before.
C24_UnmappedModeAlwaysFails ==
    \A i \in 1..Len(factory.calls) :
        factory.calls[i].mode \notin MappedModes => factory.calls[i].outcome = "ValueError"

Positions(events, signal) == {i \in 1..Len(events) : events[i][1] = signal}
TerminalAfterStart(j) ==
    {i \in 1..Len(job[j].emitted) :
        /\ job[j].emitted[i][1] \in {"job_finished", "job_canceled"}
        /\ \E k \in Positions(job[j].emitted, "job_started") : k < i}

\* C25: a started task that has ended reported exactly one terminal event
\* after job_started: job_canceled if the task was canceled, and otherwise
\* job_finished with the value execute() returned.
C25_OneTerminalEvent ==
    \A j \in Jobs :
        (job[j].status = "done" /\ Positions(job[j].emitted, "job_started") # {}) =>
            /\ Cardinality(TerminalAfterStart(j)) = 1
            /\ \A i \in TerminalAfterStart(j) :
                IF job[j].canceled
                THEN job[j].emitted[i] = <<"job_canceled">>
                ELSE job[j].emitted[i] = <<"job_finished", job[j].returned = "True">>

\* C26: the observer receives a task's job_queued before its job_started.
C26_QueuedDeliveredBeforeStarted ==
    \A j \in Jobs :
        \A i \in Positions(job[j].delivered, "job_started") :
            \E k \in Positions(job[j].delivered, "job_queued") : k < i

InvokedForTile(i) == {k \in 1..Len(invoked) : invoked[k][2] = i}
StepOfKind ==
    CASE kind = "features" -> "_process_features_for_area"
      [] kind = "raster" -> "_process_raster_for_area"
      [] kind = "aggregate" -> "_process_aggregate_for_area"

\* C27: every tile whose production has begun had exactly one production
\* step invoked, the step of the mode the workflow was constructed with, so
\* the same step for every tile; an aggregation workflow takes the
\* aggregate-driven step.
C27_OneProductionStepPerTile ==
    /\ \A i \in 0..MaxTiles :
        /\ Cardinality(InvokedForTile(i)) <= 1
        /\ ("produce" \in StepsOfTile(i)) <=> (InvokedForTile(i) # {})
    /\ \A k \in 1..Len(invoked) : invoked[k][1] = StepOfKind

\* reached: a raster-driven workflow that has finished after two tiles
C27_Witness ==
    /\ kind = "raster"
    /\ Len(invoked) = 2
    /\ invoked[1][2] = 0 /\ invoked[2][2] = 1
    /\ pc = "done"

StepRank(name) ==
    CASE name = "subset" -> 1
      [] name \in {"produce", "merge", "weighted_sum"} -> 2
      [] name = "mask" -> 3
      [] name = "mosaic" -> 4
StepPositions(name) == {k \in 1..Len(steps) : steps[k][1] = name}

\* C28: the steps of one execute() are in tile order; within a tile they
\* are in the order subset, produce, mask, each at most once; a step of a
\* later tile, and the mosaic, come after the mask of the tile before; the
\* mosaic runs at most once, exactly once and last when execute() returns
\* True, and it takes the masked rasters in tile order.
C28_TilesAndStepsInOrder ==
    /\ \A k \in 1..Len(steps), l \in 1..Len(steps) :
        k < l =>
            /\ steps[k][2] <= steps[l][2]
            /\ steps[k][2] = steps[l][2] => StepRank(steps[k][1]) <= StepRank(steps[l][1])
            /\ steps[k] # steps[l]
    /\ \A k \in 1..Len(steps) :
        steps[k][2] > 0 => \E m \in 1..(k - 1) : steps[m] = <<"mask", steps[k][2] - 1>>
    /\ Cardinality(StepPositions("mosaic")) <= 1
    /\ ret = "True" => StepPositions("mosaic") = {Len(steps)}
    /\ \A k \in 1..Len(vrt_inputs), l \in 1..Len(vrt_inputs) :
        k < l => vrt_inputs[k].tile < vrt_inputs[l].tile

\* reached: a feature-driven workflow that returned True after two tiles,
\* both in the mosaic
C28_Witness ==
    /\ kind = "features"
    /\ ret = "True"
    /\ Len(vrt_inputs) = 2
    /\ StepPositions("mask") # {} /\ StepPositions("mosaic") = {7}

TilesWithDataAt(col) ==
    {k \in 1..Len(mosaic.tiles) :
        col \in mosaic.tiles[k].clip /\ ValueAt(mosaic.tiles[k].produced, col) # NoData}

\* C29: a mosaic pixel inside tile k's clip has the value tile k produced
\* there, and a pixel inside no clip is nodata.
C29_MosaicShowsEachTileInItsClip ==
    mosaic.stage = "mosaic" =>
        \A col \in MosaicColumns :
            /\ \A k \in 1..Len(mosaic.tiles) :
                col \in mosaic.tiles[k].clip =>
                    ValueAt(mosaic.vrt, col) = ValueAt(mosaic.tiles[k].produced, col)
            /\ (\A k \in 1..Len(mosaic.tiles) : col \notin mosaic.tiles[k].clip) =>
                    ValueAt(mosaic.vrt, col) = NoData

\* C29, amended: a mosaic pixel has the value produced by the last tile, in
\* index order, whose clip contains the pixel and that produced data there;
\* it is nodata when there is no such tile. With clips that do not overlap,
\* all-3 in tile 0 and all-5 in tile 1, the mosaic is 3 over tile 0's clip,
\* 5 over tile 1's clip and nodata elsewhere.
C29_MosaicShowsLastTileWithData ==
    mosaic.stage = "mosaic" =>
        \A col \in MosaicColumns :
            ValueAt(mosaic.vrt, col) =
                IF TilesWithDataAt(col) = {} THEN NoData
                ELSE ValueAt(mosaic.tiles[SetMax(TilesWithDataAt(col))].produced, col)

\* reached: all-3 and all-5 tiles whose clips share a column, and a column
\* outside both clips
C29_Witness ==
    /\ mosaic.stage = "mosaic"
    /\ \A k \in 1..2 : \A x \in 1..Cols(mosaic.tiles[k].produced) :
            mosaic.tiles[k].produced.data[x] # NoData
    /\ mosaic.tiles[1].clip \cap mosaic.tiles[2].clip # {}
    /\ \E col \in MosaicColumns : \A k \in 1..2 :
            /\ col \notin mosaic.tiles[k].clip
            /\ ValueAt(mosaic.tiles[k].produced, col) # NoData

\* C30: an item that was never executed (result text empty or "Not Run")
\* and whose analysis mode is configured does not get the failed status,
\* and every item gets one of the status values.
C30_NotRunIsNotFailed ==
    item_status.stage = "status" =>
        /\ item_status.status \in {"x", "-", "!", "tick"}
        /\ (/\ item_status.data.result \in {NoText, NotRunText}
            /\ item_status.data.analysis_mode \in
                    {UseDefaultIndexScore, SpatialAnalysis, TemporalAnalysis})
            => item_status.status # "x"

\* C31: process_areas handles every area of the store exactly once, in
\* iterator order, and then returns a VRT path that combines the per-area
\* rasters 0..N-1; it does so for every store size N, N = 0 included.
C31_ProcessAreasReturnsVrt ==
    processor.stage \in {"returned", "raised"} =>
        /\ processor.stage = "returned"
        /\ processor.handled = AreaIterator(processor.n)
        /\ processor.result # PyNone
        /\ processor.INPUT = AreaIterator(processor.n)

\* The node is below the ancestor in the tree.
RECURSIVE IsDescendant(_, _)
IsDescendant(n, ancestor) ==
    /\ n # "A"
    /\ \/ parentItem[n] = ancestor
       \/ IsDescendant(parentItem[n], ancestor)

\* C32: one invocation of Run Item Workflow queues each node of the item's
\* subtree at most once and queues every descendant before its ancestor.
C32_RunItemQueuesEachNodeOnce ==
    pass_kind = "item" =>
        /\ \A n \in Nodes : TimesQueued(n) <= 1
        /\ \A j, k \in 1..Len(pass_log.queued) :
                IsDescendant(pass_log.queued[j].node, pass_log.queued[k].node) => j < k

\* C33: the number of items counted before a run-all or run-incomplete pass
\* equals the number of tasks queued over the four phases of the pass; the
\* overall progress value never exceeds its maximum, has reached it when the
\* pass is over, and reaches it only when no task of the pass is pending.
C33_ProgressReachesMaximumAtTheEnd ==
    pass_kind \in {"all", "incomplete"} =>
        /\ progress.value <= progress.maximum
        /\ PassOver => /\ progress.items_to_run = Len(pass_log.queued)
                       /\ progress.value = progress.maximum
        /\ progress.value = progress.maximum => job_queue = <<>> /\ active = {}

\* C34: after an execute() that returns True the node carries no error
\* information of an earlier failed run (its error text and its error file
\* are empty); after an execute() that returns False its result file is empty.
C34_SuccessClearsErrorFailureClearsResult ==
    /\ (pc = "done" /\ ret = "True") =>
            ~Truthy(attrs.error) /\ ~Truthy(attrs.error_file)
    /\ (pc = "done" /\ ret = "False") => attrs.result_file = ""

\* C35: for every node id, ids with spaces or upper-case letters included,
\* and every tile, the path at which the aggregating parent looks up a
\* completed child's masked raster is the path the child's workflow wrote.
C35_ParentLooksWhereChildWrote ==
    lookup.stage = "looked up" => lookup.looked_up = lookup.written

\* the aggregate step of the current tile found an empty weighted input set
EmptyInputSet ==
    /\ kind = "aggregate"
    /\ invoked # <<>>
    /\ ~last_dict.raised
    /\ last_dict.files = {}

\* C36: an aggregation node whose weighted input set is empty for a tile
\* produces no weighted raster for that tile, goes on to no further tile and
\* ends with status Error and an empty result file, never Completed.
C36_EmptyInputSetEndsInError ==
    EmptyInputSet =>
        /\ ~Truthy(raster_output)
        /\ StepsOfTile(index) \cap {"merge", "weighted_sum", "mask"} = {}
        /\ pc \in {"mask", "done"}
        /\ pc = "done" =>
                /\ ret = "False"
                /\ attrs.result = ErrorText
                /\ attrs.result_file = ""
                /\ NodeStatus = "x"

\* reached: both children are set to do-not-use, the aggregate step of tile 0
\* found nothing and the node has ended
C36_Witness ==
    /\ EmptyInputSet
    /\ \A g \in Guids : children[g].analysis_mode = DoNotUse
    /\ nTiles = 2
    /\ index = 0
    /\ pc = "done"
    /\ raised = "mask"
    /\ attrs.result = ErrorText

\* C37: two create_workflow calls on one factory with the same analysis mode
\* have the same outcome (the same workflow type, or both the unknown-mode
\* error), whatever calls were made before and in between.
C37_DispatchDependsOnModeAlone ==
    \A i, j \in 1..Len(factory.calls) :
        factory.calls[i].mode = factory.calls[j].mode =>
            factory.calls[i].outcome = factory.calls[j].outcome

\* C38: after QgsTask.cancel on a workflow task the cancellation handle its
\* workflow polls reports canceled at every later per-tile poll, and the
\* handle of no task that was not canceled reports canceled.
C38_TaskCancelReachesTheWorkflow ==
    \A j \in Jobs :
        /\ \A k \in 1..Len(job[j].polls) :
                job[j].polls[k].task_canceled => job[j].polls[k].isCanceled
        /\ ~job[j].canceled => ~job[j].feedback_canceled

\* C39: in a run-all or run-incomplete pass no task is queued for a node
\* that is Excluded, nor for a node below an Excluded node.
C39_NoTaskForExcludedNodes ==
    pass_kind \in {"all", "incomplete"} =>
        \A k \in 1..Len(pass_log.queued) : ~pass_log.queued[k].excluded

====
